---- MODULE Spec2Model ----
(***************************************************************************)
(* rkv: entry-path resolution (getFilePath) and template rendering         *)
(* (processTemplate) of utils/files.ts, with the parts of luxon's DateTime *)
(* and node's path.join they call.                                         *)
(*                                                                         *)
(* Text is a sequence of one-character strings, so that the regular-       *)
(* expression scans, String.split and luxon's format tokenizer work on     *)
(* characters as the code does.                                            *)
(***************************************************************************)
EXTENDS Integers, Sequences, FiniteSets, TLC

VARIABLES
    type,       \* getFilePath's `type` argument (text)
    date,       \* the DateTime argument: [year, month, day, hour, minute]
    platform,   \* process.platform of the host
    frags,      \* the template argument, as the list of fragments it is written from
    result,     \* outcome of the last call: a path, rendered text or a thrown Error
    pending,    \* shortcut passes not yet applied (permuted application)
    text,       \* `processed` while the shortcut passes are applied one by one
    now,        \* DateTime.now(): the clock of the host
    fs,         \* the vault: whether its root exists, its directories and files
    packaged,   \* the templates/ directory shipped next to the commands
    config,     \* the Config the commands are run with
    launched,   \* the exec calls of openInObsidian so far, each with its outcome
    calls,      \* the calls of getFilePath and processTemplate made so far
    steps,      \* number of commands and calls run so far
    configFile, \* ~/.rkv/config.json: missing, corrupt, or the parsed JSON value
    exec        \* one openInObsidian call: its position, exec calls and report

corevars == <<type, date, platform, frags, result, pending, text>>

sysvars == <<now, fs, packaged, config, launched, calls, steps, configFile, exec>>

vars == <<type, date, platform, frags, result, pending, text,
          now, fs, packaged, config, launched, calls, steps, configFile, exec>>

(***************************************************************************)
(* Bounds of the model.                                                    *)
(***************************************************************************)
FirstYear == 2020
LastYear == 2026
MaxFrags == 3
MaxShuffleFrags == 2
MaxSteps == 2
MaxLogs == 3
MaxProcs == 2

(***************************************************************************)
(* Text helpers.                                                           *)
(***************************************************************************)
\* the pieces ss[lo..hi] written one after the other
RECURSIVE FlattenRange(_, _, _)
FlattenRange(ss, lo, hi) ==
    IF lo > hi THEN <<>>
    ELSE IF lo = hi THEN ss[lo]
    ELSE LET mid == (lo + hi) \div 2
         IN  FlattenRange(ss, lo, mid) \o FlattenRange(ss, mid + 1, hi)

Flatten(ss) == FlattenRange(ss, 1, Len(ss))

\* s occurs in t at position i (1-based)
MatchAt(t, s, i) ==
    /\ i >= 1
    /\ i + Len(s) - 1 <= Len(t)
    /\ \A j \in 1..Len(s) : t[i + j - 1] = s[j]

StartsWith(t, s) == MatchAt(t, s, 1)

EndsWith(t, s) == Len(s) <= Len(t) /\ MatchAt(t, s, Len(t) - Len(s) + 1)

DigitChars == <<"0", "1", "2", "3", "4", "5", "6", "7", "8", "9">>

\* "" + n for a non-negative integer n
RECURSIVE NumStr(_)
NumStr(n) == IF n < 10 THEN <<DigitChars[n + 1]>>
             ELSE NumStr(n \div 10) \o <<DigitChars[(n % 10) + 1]>>

RECURSIVE Zeros(_)
Zeros(k) == IF k <= 0 THEN <<>> ELSE <<"0">> \o Zeros(k - 1)

\* luxon util padStart(input, n) for non-negative input
padStart(n, w) == LET s == NumStr(n) IN Zeros(w - Len(s)) \o s

(***************************************************************************)
(* luxon DateTime: validity and calendar arithmetic.                       *)
(***************************************************************************)
isLeapYear(y) == y % 4 = 0 /\ (y % 100 # 0 \/ y % 400 = 0)

daysInYear(y) == IF isLeapYear(y) THEN 366 ELSE 365

daysInMonth(y, m) ==
    IF m = 2 THEN (IF isLeapYear(y) THEN 29 ELSE 28)
    ELSE <<31, 0, 31, 30, 31, 30, 31, 31, 30, 31, 30, 31>>[m]

\* hasInvalidGregorianData / hasInvalidTimeData: the reason, or "" when valid
invalidReason(d) ==
    IF d.month \notin 1..12 THEN "unit out of range: month"
    ELSE IF d.day \notin 1..daysInMonth(d.year, d.month) THEN "unit out of range: day"
    ELSE IF d.hour \notin 0..23 THEN "unit out of range: hour"
    ELSE IF d.minute \notin 0..59 THEN "unit out of range: minute"
    ELSE ""

isValid(d) == invalidReason(d) = ""

nonLeapLadder == <<0, 31, 59, 90, 120, 151, 181, 212, 243, 273, 304, 334>>
leapLadder == <<0, 31, 60, 91, 121, 152, 182, 213, 244, 274, 305, 335>>

computeOrdinal(y, m, d) ==
    d + (IF isLeapYear(y) THEN leapLadder ELSE nonLeapLadder)[m]

\* days of the proleptic Gregorian calendar before 1 January of year y
DaysBeforeYear(y) ==
    365 * (y - 1) + ((y - 1) \div 4) - ((y - 1) \div 100) + ((y - 1) \div 400)

\* day number of a date; 0001-01-01 is day 1, a Monday
DayNumber(y, m, d) == DaysBeforeYear(y) + computeOrdinal(y, m, d)

\* ISO weekday 1 (Monday) .. 7 (Sunday), as Date.UTC(...).getUTCDay() with 0 -> 7
dayOfWeek(y, m, d) == ((DayNumber(y, m, d) - 1) % 7) + 1

\* firstWeekOffset(year, minDaysInFirstWeek = 4, startOfWeek = 1)
firstWeekOffset(y) == 3 - dayOfWeek(y, 1, 4)

weeksInWeekYear(wy) ==
    (daysInYear(wy) - firstWeekOffset(wy) + firstWeekOffset(wy + 1)) \div 7

\* gregorianToWeek: [weekYear, weekNumber, weekday]
gregorianToWeek(d) ==
    LET ordinal == computeOrdinal(d.year, d.month, d.day)
        weekday == dayOfWeek(d.year, d.month, d.day)
        wn == (ordinal - weekday + 10) \div 7
    IN  IF wn < 1
        THEN [weekYear |-> d.year - 1, weekNumber |-> weeksInWeekYear(d.year - 1),
              weekday |-> weekday]
        ELSE IF wn > weeksInWeekYear(d.year)
        THEN [weekYear |-> d.year + 1, weekNumber |-> 1, weekday |-> weekday]
        ELSE [weekYear |-> d.year, weekNumber |-> wn, weekday |-> weekday]

MonthNames == <<
    <<"J","a","n","u","a","r","y">>, <<"F","e","b","r","u","a","r","y">>,
    <<"M","a","r","c","h">>, <<"A","p","r","i","l">>, <<"M","a","y">>,
    <<"J","u","n","e">>, <<"J","u","l","y">>, <<"A","u","g","u","s","t">>,
    <<"S","e","p","t","e","m","b","e","r">>, <<"O","c","t","o","b","e","r">>,
    <<"N","o","v","e","m","b","e","r">>, <<"D","e","c","e","m","b","e","r">> >>

\* every English short month name is the first three letters ("May" included)
monthShortName(m) == SubSeq(MonthNames[m], 1, 3)

WeekdayNames == <<
    <<"M","o","n","d","a","y">>, <<"T","u","e","s","d","a","y">>,
    <<"W","e","d","n","e","s","d","a","y">>, <<"T","h","u","r","s","d","a","y">>,
    <<"F","r","i","d","a","y">>, <<"S","a","t","u","r","d","a","y">>,
    <<"S","u","n","d","a","y">> >>

meridiem(d) == IF d.hour < 12 THEN <<"A", "M">> ELSE <<"P", "M">>

hour12(d) == IF d.hour % 12 = 0 THEN 12 ELSE d.hour % 12

\* Intl time of day in en-US, "h:mm a"
localeTime(d) ==
    NumStr(hour12(d)) \o <<":">> \o padStart(d.minute, 2) \o <<" ">> \o meridiem(d)

\* toLocaleString(DateTime.DATE_SHORT) in en-US: 1/15/2024
localeDateShort(d) ==
    NumStr(d.month) \o <<"/">> \o NumStr(d.day) \o <<"/">> \o NumStr(d.year)

\* toLocaleString(DateTime.DATE_FULL) in en-US: January 15, 2024
localeDateFull(d) ==
    MonthNames[d.month] \o <<" ">> \o NumStr(d.day) \o <<",", " ">> \o NumStr(d.year)

\* toLocaleString(DateTime.DATETIME_MED) in en-US: Jan 15, 2024, 9:07 AM
localeDateTimeMed(d) ==
    monthShortName(d.month) \o <<" ">> \o NumStr(d.day) \o <<",", " ">>
        \o NumStr(d.year) \o <<",", " ">> \o localeTime(d)

\* toLocaleString(DateTime.DATETIME_SHORT) in en-US: 1/15/2024, 9:07 AM
localeDateTimeShort(d) == localeDateShort(d) \o <<",", " ">> \o localeTime(d)

\* toISO() with the host zone at offset 0, seconds and milliseconds 0:
\* 2024-01-15T09:07:00.000+00:00
toISO(d) ==
    padStart(d.year, 4) \o <<"-">> \o padStart(d.month, 2) \o <<"-">>
        \o padStart(d.day, 2) \o <<"T">> \o padStart(d.hour, 2) \o <<":">>
        \o padStart(d.minute, 2)
        \o <<":", "0", "0", ".", "0", "0", "0", "+", "0", "0", ":", "0", "0">>


(***************************************************************************)
(* luxon Formatter: DateTime.toFormat(fmt) for a valid DateTime.           *)
(***************************************************************************)
\* Formatter.parseFormat: the format string split into pieces, each a run of
\* one repeated character or the text between two quotes ('...'), in the order
\* of the string. bracketed: the character at i follows an odd number of quotes
bracketedAt(fmt, i) == Cardinality({j \in 1..(i - 1) : fmt[j] = "'"}) % 2 = 1

\* the loop of parseFormat starts a piece at i (currentFull is empty or pushed)
pieceStartsAt(fmt, i) ==
    /\ fmt[i] # "'"
    /\ \/ i = 1
       \/ fmt[i - 1] = "'"
       \/ ~bracketedAt(fmt, i) /\ fmt[i - 1] # fmt[i]

\* the last position of the piece that starts at i
pieceEnd(fmt, i) ==
    LET ends == {j \in i..Len(fmt) :
                    \/ j = Len(fmt)
                    \/ fmt[j + 1] = "'"
                    \/ ~bracketedAt(fmt, i) /\ fmt[j + 1] # fmt[j]}
    IN  CHOOSE j \in ends : \A k \in ends : j <= k

parseFormat(fmt) ==
    LET starts == {i \in 1..Len(fmt) : pieceStartsAt(fmt, i)}
        nth(k) == CHOOSE i \in starts : Cardinality({j \in starts : j < i}) = k - 1
    IN  [k \in 1..Cardinality(starts) |->
            [literal |-> bracketedAt(fmt, nth(k)),
             val |-> SubSeq(fmt, nth(k), pieceEnd(fmt, nth(k)))]]

\* Formatter.formatDateTimeFromString's tokenToString: a known token gives its
\* value; anything else falls to `default: return maybeMacro(token)`, which
\* returns a macro token's localized value and every other token unchanged
tokenToString(d, token) ==
    CASE token = <<"d">> -> NumStr(d.day)
      [] token = <<"d", "d">> -> padStart(d.day, 2)
      [] token = <<"M">> -> NumStr(d.month)
      [] token = <<"M", "M">> -> padStart(d.month, 2)
      [] token = <<"M", "M", "M">> -> monthShortName(d.month)
      [] token = <<"M", "M", "M", "M">> -> MonthNames[d.month]
      [] token = <<"y">> -> NumStr(d.year)
      [] token = <<"y", "y">> -> padStart((d.year % 100), 2)
      [] token = <<"y", "y", "y", "y">> -> padStart(d.year, 4)
      [] token = <<"y", "y", "y", "y", "y", "y">> -> padStart(d.year, 6)
      [] token = <<"W">> -> NumStr(gregorianToWeek(d).weekNumber)
      [] token = <<"W", "W">> -> padStart(gregorianToWeek(d).weekNumber, 2)
      [] token = <<"k", "k">> -> padStart((gregorianToWeek(d).weekYear % 100), 2)
      [] token = <<"k", "k", "k", "k">> -> padStart(gregorianToWeek(d).weekYear, 4)
      [] token = <<"c">> -> NumStr(gregorianToWeek(d).weekday)
      [] token = <<"c", "c", "c">> -> SubSeq(WeekdayNames[gregorianToWeek(d).weekday], 1, 3)
      [] token = <<"c", "c", "c", "c">> -> WeekdayNames[gregorianToWeek(d).weekday]
      [] token = <<"H">> -> NumStr(d.hour)
      [] token = <<"H", "H">> -> padStart(d.hour, 2)
      [] token = <<"h">> -> NumStr(hour12(d))
      [] token = <<"h", "h">> -> padStart(hour12(d), 2)
      [] token = <<"m">> -> NumStr(d.minute)
      [] token = <<"m", "m">> -> padStart(d.minute, 2)
      [] token = <<"a">> -> meridiem(d)
      [] token = <<"o">> -> NumStr(computeOrdinal(d.year, d.month, d.day))
      [] token = <<"o", "o", "o">> -> padStart(computeOrdinal(d.year, d.month, d.day), 3)
      [] token = <<"t">> -> localeTime(d)
      [] token = <<"f">> -> localeDateTimeShort(d)
      [] OTHER -> token

\* the pieces written out: a literal as it is, a token by tokenToString
stringifyTokens(d, splits) ==
    Flatten([k \in 1..Len(splits) |->
                IF splits[k].literal THEN splits[k].val
                ELSE tokenToString(d, splits[k].val)])

\* DateTime.toFormat for a valid DateTime. It has no failing case: no format
\* string makes it throw.
toFormat(d, fmt) == stringifyTokens(d, parseFormat(fmt))

\* Characters that are luxon tokens or macros and have no case above, and the
\* longer runs of t and f: format strings using them are outside the model.
UnmodelledTokenChars ==
    {"S", "u", "s", "Z", "z", "E", "L", "G", "n", "i", "q", "X", "x", "D", "T", "F"}

FormatInModel(fmt) ==
    /\ \A i \in 1..Len(fmt) : fmt[i] \notin UnmodelledTokenChars
    /\ \A i \in 1..(Len(fmt) - 1) :
           fmt[i] \in {"t", "f"} => fmt[i + 1] # fmt[i]
    /\ \A i \in 1..(Len(fmt) - 4) :
           \A ch \in {"M", "c"} : ~(\A j \in 0..4 : fmt[i + j] = ch)


(***************************************************************************)
(* node path.join and String.split.                                        *)
(***************************************************************************)
Platforms == {"darwin", "linux", "win32"}

\* path.sep of the host: path is path.win32 on Windows, path.posix elsewhere
pathSep(plat) == IF plat = "win32" THEN "\\" ELSE "/"

\* path.join(...segments): the segments joined by path.sep and normalized. The
\* segments getFilePath passes are non-empty and hold no separator and no dot
\* segment, so normalization leaves the joined text as it is.
RECURSIVE pathJoin(_, _)
pathJoin(plat, segments) ==
    IF Len(segments) = 1 THEN Head(segments)
    ELSE Head(segments) \o <<pathSep(plat)>> \o pathJoin(plat, Tail(segments))

\* s.split(sep) for a one-character separator
RECURSIVE splitFrom(_, _, _, _)
splitFrom(s, sep, i, piece) ==
    IF i > Len(s) THEN <<piece>>
    ELSE IF s[i] = sep THEN <<piece>> \o splitFrom(s, sep, i + 1, <<>>)
    ELSE splitFrom(s, sep, i + 1, Append(piece, s[i]))

split(s, sep) == splitFrom(s, sep, 1, <<>>)

(***************************************************************************)
(* utils/files.ts: getFilePath, validateEntryType.                         *)
(***************************************************************************)
Morning == <<"m","o","r","n","i","n","g">>
Evening == <<"e","v","e","n","i","n","g">>
WeeklyStart == <<"w","e","e","k","l","y","-","s","t","a","r","t">>
WeeklyEnd == <<"w","e","e","k","l","y","-","e","n","d">>
MonthlyStart == <<"m","o","n","t","h","l","y","-","s","t","a","r","t">>
MonthlyEnd == <<"m","o","n","t","h","l","y","-","e","n","d">>

DotMd == <<".", "m", "d">>
Daily == <<"d","a","i","l","y">>
Weekly == <<"w","e","e","k","l","y">>
Monthly == <<"m","o","n","t","h","l","y">>

\* a call's outcome: a returned value with the console.warn lines it printed,
\* or a thrown Error
Ok(v) == [kind |-> "ok", value |-> v, warnings |-> <<>>]
Thrown(msg, detail) == [kind |-> "error", message |-> msg, detail |-> detail]

\* lines 10-13: the date components a path is written from
pathYear(d) == toFormat(d, <<"y","y","y","y">>)

pathMonthUnpadded(d) == toFormat(d, <<"M">>)

pathMonth(d) == toFormat(d, <<"M","M">>)

pathDateStr(d) == toFormat(d, <<"y","y","y","y","-","M","M","-","d","d">>)

pathWeek(d) == toFormat(d, <<"'","W","'","W","W">>)

typeSuffixFirst(ty) == split(ty, "-")[1]

\* type.split('-')[1] of lines 22 and 26
typeSuffix(ty) == split(ty, "-")[2]

\* line 18
dailyPath(plat, ty, d) ==
    pathJoin(plat, <<Daily, pathYear(d), pathMonth(d),
                     pathDateStr(d) \o <<"-">> \o ty \o DotMd>>)

\* line 22
weeklyPath(plat, ty, d) ==
    pathJoin(plat, <<Weekly, pathYear(d),
                     pathYear(d) \o <<"-">> \o pathWeek(d) \o <<"-">>
                         \o typeSuffix(ty) \o DotMd>>)

\* line 26
monthlyPath(plat, ty, d) ==
    pathJoin(plat, <<Monthly, pathYear(d),
                     pathYear(d) \o <<"-">> \o pathMonth(d) \o <<"-">>
                         \o typeSuffix(ty) \o DotMd>>)

filePathOfCoercing(plat, ty, d) ==
    CASE ty \in {WeeklyStart, WeeklyEnd} -> Ok(weeklyPath(plat, ty, d))
      [] ty \in {MonthlyStart, MonthlyEnd} -> Ok(monthlyPath(plat, ty, d))
      [] OTHER -> Ok(dailyPath(plat, ty, d))

\* the switch of lines 15-30
filePathOf(plat, ty, d) ==
    CASE ty \in {Morning, Evening} -> Ok(dailyPath(plat, ty, d))
      [] ty \in {WeeklyStart, WeeklyEnd} -> Ok(weeklyPath(plat, ty, d))
      [] ty \in {MonthlyStart, MonthlyEnd} -> Ok(monthlyPath(plat, ty, d))
      [] OTHER -> Thrown("Unknown entry type", ty)

getFilePathTypeFirst(plat, ty, d) ==
    IF ty \notin {Morning, Evening, WeeklyStart, WeeklyEnd, MonthlyStart, MonthlyEnd}
    THEN Thrown("Unknown entry type", ty)
    ELSE IF ~isValid(d) THEN Thrown("Invalid date provided", invalidReason(d))
    ELSE filePathOf(plat, ty, d)

\* a getFilePath that keeps state between calls: from its second call on it
\* writes the path with the other separator
getFilePathStateful(plat, ty, d) ==
    IF ~isValid(d) THEN Thrown("Invalid date provided", invalidReason(d))
    ELSE IF calls = <<>> THEN filePathOf(plat, ty, d)
    ELSE filePathOf(IF plat = "win32" THEN "linux" ELSE "win32", ty, d)

getFilePath(plat, ty, d) ==
    IF ~isValid(d) THEN Thrown("Invalid date provided", invalidReason(d))
    ELSE filePathOf(plat, ty, d)

validateEntryType(ty) ==
    ty \in {Morning, Evening, WeeklyStart, WeeklyEnd, MonthlyStart, MonthlyEnd}


(***************************************************************************)
(* utils/files.ts: processTemplate.                                        *)
(***************************************************************************)
BareToken == <<"{","{","d","a","t","e","}","}">>
FormatOpen == <<"{","{","d","a","t","e",":">>
Close == <<"}","}">>

\* String.replace(/<tok>/g, val) for a literal pattern: every leftmost
\* non-overlapping occurrence is replaced, and replaced text is not rescanned
\* the least of a set of positions, or 0 when there is none
firstOf(at) == IF at = {} THEN 0 ELSE CHOOSE j \in at : \A k \in at : j <= k

RECURSIVE replaceAllFrom(_, _, _, _)
replaceAllFrom(t, tok, val, i) ==
    LET m == firstOf({j \in i..Len(t) : MatchAt(t, tok, j)})
    IN  IF m = 0 THEN SubSeq(t, i, Len(t))
        ELSE SubSeq(t, i, m - 1) \o val \o replaceAllFrom(t, tok, val, m + Len(tok))

replaceAll(t, tok, val) == replaceAllFrom(t, tok, val, 1)

\* String.replace without the g flag: the first occurrence only
replaceFirst(t, tok, val) ==
    IF \E i \in 1..Len(t) : MatchAt(t, tok, i)
    THEN LET i == CHOOSE i \in 1..Len(t) :
                      MatchAt(t, tok, i) /\ \A j \in 1..(i - 1) : ~MatchAt(t, tok, j)
         IN  SubSeq(t, 1, i - 1) \o val \o SubSeq(t, i + Len(tok), Len(t))
    ELSE t

BareDatePassFirstOnly(t, d) ==
    replaceFirst(t, BareToken, toFormat(d, <<"y","y","y","y","-","M","M","-","d","d">>))

\* line 42
BareDatePass(t, d) ==
    replaceAll(t, BareToken, toFormat(d, <<"y","y","y","y","-","M","M","-","d","d">>))

\* index of the first "}" of t at or after i, or 0
firstClose(t, i) == firstOf({j \in i..Len(t) : t[j] = "}"})

\* the pattern with ([^}]*): an empty format string matches too
formatMatchEndAllowEmpty(t, i) ==
    IF ~MatchAt(t, FormatOpen, i) THEN 0
    ELSE LET j == firstClose(t, i + Len(FormatOpen))
         IN  IF j >= i + Len(FormatOpen) /\ MatchAt(t, Close, j) THEN j + 1 ELSE 0

\* end of the match of /{{date:([^}]+)}}/ starting at i, or 0: the opener, at
\* least one character other than "}", then "}}"
formatMatchEnd(t, i) ==
    IF ~MatchAt(t, FormatOpen, i) THEN 0
    ELSE LET j == firstClose(t, i + Len(FormatOpen))
         IN  IF j > i + Len(FormatOpen) /\ MatchAt(t, Close, j) THEN j + 1 ELSE 0

\* whether vars.date.toFormat(format) throws inside the try block of line 46:
\* toFormat has no failing case for a valid DateTime, whatever the format
toFormatThrows(d, format) == FALSE

\* the replacer callback of lines 45-53: replacement text and warning lines
formatReplacer(d, format) ==
    IF toFormatThrows(d, format)
    THEN [out |-> FormatOpen \o format \o Close, warn |-> <<format>>]
    ELSE [out |-> toFormat(d, format), warn |-> <<>>]

\* lines 45-53: [text, warnings] after the {{date:FORMAT}} pass
RECURSIVE dateFormatFrom(_, _, _)
dateFormatFrom(t, d, i) ==
    LET m == firstOf({j \in i..Len(t) : formatMatchEnd(t, j) # 0})
    IN  IF m = 0 THEN [text |-> SubSeq(t, i, Len(t)), warnings |-> <<>>]
        ELSE LET e == formatMatchEnd(t, m)
                 r == formatReplacer(d, SubSeq(t, m + Len(FormatOpen), e - 2))
                 rest == dateFormatFrom(t, d, e + 1)
             IN  [text |-> SubSeq(t, i, m - 1) \o r.out \o rest.text,
                  warnings |-> r.warn \o rest.warnings]

DateFormatPass(t, d) == dateFormatFrom(t, d, 1)

\* the twelve shortcut markers, in the order of lines 56-73
ShortcutNames == <<
    <<"d","a","t","e","I","S","O">>, <<"d","a","t","e","S","h","o","r","t">>,
    <<"d","a","t","e","F","u","l","l">>, <<"d","a","t","e","T","i","m","e">>,
    <<"w","e","e","k","N","u","m","b","e","r">>, <<"w","e","e","k","Y","e","a","r">>,
    <<"w","e","e","k","d","a","y">>,
    <<"m","o","n","t","h","N","a","m","e">>, <<"m","o","n","t","h","S","h","o","r","t">>,
    <<"m","o","n","t","h","N","u","m","b","e","r">>,
    <<"y","e","a","r">>, <<"y","e","a","r","S","h","o","r","t">> >>

Shortcuts == 1..Len(ShortcutNames)

shortcutToken(k) == <<"{", "{">> \o ShortcutNames[k] \o Close

\* {{weekYear}} written with the calendar year's token
shortcutValueCalendarYear(k, d) ==
    CASE k = 1 -> toISO(d)
      [] k = 2 -> localeDateShort(d)
      [] k = 3 -> localeDateFull(d)
      [] k = 4 -> localeDateTimeMed(d)
      [] k = 5 -> toFormat(d, <<"W","W">>)
      [] k = 6 -> toFormat(d, <<"y","y","y","y">>)
      [] k = 7 -> toFormat(d, <<"c","c","c","c">>)
      [] k = 8 -> toFormat(d, <<"M","M","M","M">>)
      [] k = 9 -> toFormat(d, <<"M","M","M">>)
      [] k = 10 -> toFormat(d, <<"M","M">>)
      [] k = 11 -> toFormat(d, <<"y","y","y","y">>)
      [] k = 12 -> toFormat(d, <<"y","y">>)

\* toISO() giving null, so that `|| ''` puts the empty string for {{dateISO}}
shortcutValueNullISO(k, d) ==
    CASE k = 1 -> <<>>
      [] k = 2 -> localeDateShort(d)
      [] k = 3 -> localeDateFull(d)
      [] k = 4 -> localeDateTimeMed(d)
      [] k = 5 -> toFormat(d, <<"W","W">>)
      [] k = 6 -> toFormat(d, <<"k","k","k","k">>)
      [] k = 7 -> toFormat(d, <<"c","c","c","c">>)
      [] k = 8 -> toFormat(d, <<"M","M","M","M">>)
      [] k = 9 -> toFormat(d, <<"M","M","M">>)
      [] k = 10 -> toFormat(d, <<"M","M">>)
      [] k = 11 -> toFormat(d, <<"y","y","y","y">>)
      [] k = 12 -> toFormat(d, <<"y","y">>)

\* the replacement of shortcut k; `x || ''` changes nothing as none is empty
shortcutValue(k, d) ==
    CASE k = 1 -> toISO(d)
      [] k = 2 -> localeDateShort(d)
      [] k = 3 -> localeDateFull(d)
      [] k = 4 -> localeDateTimeMed(d)
      [] k = 5 -> toFormat(d, <<"W","W">>)
      [] k = 6 -> toFormat(d, <<"k","k","k","k">>)
      [] k = 7 -> toFormat(d, <<"c","c","c","c">>)
      [] k = 8 -> toFormat(d, <<"M","M","M","M">>)
      [] k = 9 -> toFormat(d, <<"M","M","M">>)
      [] k = 10 -> toFormat(d, <<"M","M">>)
      [] k = 11 -> toFormat(d, <<"y","y","y","y">>)
      [] k = 12 -> toFormat(d, <<"y","y">>)

\* one statement of lines 56-73
shortcutPass(t, d, k) == replaceAll(t, shortcutToken(k), shortcutValue(k, d))

RECURSIVE shortcutPassesFrom(_, _, _)
shortcutPassesFrom(t, d, k) ==
    IF t = <<>> \/ k > Len(ShortcutNames) THEN t
    ELSE shortcutPassesFrom(shortcutPass(t, d, k), d, k + 1)

\* lines 56-73
ShortcutPasses(t, d) == shortcutPassesFrom(t, d, 1)

\* the {{date:FORMAT}} statement placed before the {{date}} statement
processTemplateFormatFirst(tpl, d) ==
    IF ~isValid(d)
    THEN Thrown("Invalid date provided for template processing", invalidReason(d))
    ELSE LET afterFormat == DateFormatPass(tpl, d)
             afterBare == BareDatePass(afterFormat.text, d)
         IN  [kind |-> "ok",
              value |-> ShortcutPasses(afterBare, d),
              warnings |-> afterFormat.warnings]

processTemplate(tpl, d) ==
    IF ~isValid(d)
    THEN Thrown("Invalid date provided for template processing", invalidReason(d))
    ELSE LET afterBare == BareDatePass(tpl, d)
             afterFormat == DateFormatPass(afterBare, d)
         IN  [kind |-> "ok",
              value |-> ShortcutPasses(afterFormat.text, d),
              warnings |-> afterFormat.warnings]


(***************************************************************************)
(* Inputs.                                                                 *)
(***************************************************************************)
BogusType == <<"b","o","g","u","s","-","t","y","p","e">>
QuarterlyStart == <<"q","u","a","r","t","e","r","l","y","-","s","t","a","r","t">>
CapitalMorning == <<"M","o","r","n","i","n","g">>

KnownTypes == {Morning, Evening, WeeklyStart, WeeklyEnd, MonthlyStart, MonthlyEnd}

\* tags outside the enumeration: a made-up tag, a family name without suffix,
\* a two-part tag of an unknown family, a known tag in another case
UnknownTypes == {BogusType, Weekly, QuarterlyStart, CapitalMorning}

TypeTags == KnownTypes \cup UnknownTypes

Years == FirstYear..LastYear

At(y, m, d, h, mi) == [year |-> y, month |-> m, day |-> d, hour |-> h, minute |-> mi]

\* dates around the turn of the year and of the month, with out-of-range
\* months and days among them
PathDates ==
    {At(y, m, d, 0, 0) : y \in Years, m \in {1, 2, 3, 12, 13},
                         d \in (1..7) \cup {15} \cup (28..32)}

\* every day of the years of the model
CalendarDates ==
    {dt \in {At(y, m, d, 0, 0) : y \in Years, m \in 1..12, d \in 1..31} : isValid(dt)}

\* a Monday morning in ISO week 3, and a date with month 13
RenderDates == {At(2024, 1, 15, 9, 7), At(2024, 13, 1, 0, 0)}

\* fragments that templates are written from
FBare == BareToken
FFmtYearMonth == FormatOpen \o <<"y","y","y","y","-","M","M">> \o Close
FFmtReal == FormatOpen \o <<"r","e","a","l">> \o Close
FFmtQuotedOpen == FormatOpen \o <<"'","{","{","'">> \o Close
FFmtQuotedFormatOpen == FormatOpen \o <<"'">> \o FormatOpen \o <<"'">> \o Close
FDateClose == <<"d","a","t","e","}","}">>
FYearClose == <<"y","e","a","r","}","}">>
FYear == <<"{","{","y","e","a","r","}","}">>
FFoo == <<"{","{","f","o","o","}","}">>
FWeekNumber == <<"{","{","w","e","e","k","N","u","m","b","e","r","}","}">>
FWeekYear == <<"{","{","w","e","e","k","Y","e","a","r","}","}">>
FMonthName == <<"{","{","m","o","n","t","h","N","a","m","e","}","}">>
FDateISO == <<"{","{","d","a","t","e","I","S","O","}","}">>
FNestedISO == <<"{","{","y","e">> \o FDateISO \o <<"a","r","}","}">>
FSpace == <<" ">>

RenderFrags ==
    {FBare, FFmtYearMonth, FFmtReal, FFmtQuotedOpen, FFmtQuotedFormatOpen,
     FDateClose, FYearClose, FYear, FFoo, FormatOpen, Close}

SeqsUpTo(S, n) == UNION {[1..k -> S] : k \in 0..n}

RenderTemplates == SeqsUpTo(RenderFrags, MaxFrags)

CalendarTemplates ==
    {<<FWeekNumber, FSpace, FMonthName, FSpace, FYear>>,
     <<FWeekYear, FSpace, FWeekNumber, FSpace, FYear>>}

\* {{ye{{dateISO}}ar}} would read {{year}} if {{dateISO}} were replaced by nothing
ShuffleFrags == {FNestedISO, FYear, FMonthName}

ShuffleTemplates == SeqsUpTo(ShuffleFrags, MaxShuffleFrags)

\* the template text handed to processTemplate
template == Flatten(frags)

(***************************************************************************)
(* Calls of the two functions on drawn arguments.                          *)
(***************************************************************************)
InitPath ==
    /\ type \in TypeTags
    /\ date \in PathDates
    /\ platform \in {"linux", "win32"}
    /\ frags = <<>>

InitRender ==
    /\ type = Morning
    /\ date \in RenderDates
    /\ platform = "linux"
    /\ frags \in RenderTemplates

InitCalendar ==
    /\ type = WeeklyStart
    /\ date \in CalendarDates
    /\ platform = "linux"
    /\ frags \in CalendarTemplates

\* loadConfig has not run; openInObsidian is not running
NoConfig == [unset |-> TRUE]
NoExec == [pc |-> "idle"]

\* ~/.rkv/config.json: absent, not parsable as JSON, or holding a JSON object
MissingFile == [state |-> "missing"]
CorruptFile == [state |-> "corrupt"]
JsonFile(obj) == [state |-> "json", value |-> obj]

\* nothing but the two functions is run: no clock read, no vault, no command
SysIdle ==
    /\ now = At(2024, 1, 15, 9, 7)
    /\ fs = [root |-> FALSE, dirs |-> {}, files |-> {}]
    /\ packaged = {}
    /\ config = NoConfig
    /\ launched = <<>>
    /\ calls = <<>>
    /\ steps = 0
    /\ configFile = MissingFile
    /\ exec = NoExec

Init ==
    /\ InitPath \/ InitRender \/ InitCalendar
    /\ SysIdle
    /\ result = [fn |-> "none"]
    /\ pending = {}
    /\ text = <<>>

CallGetFilePath ==
    /\ result.fn = "none"
    /\ result' = [fn |-> "getFilePath", out |-> getFilePath(platform, type, date)]
    /\ UNCHANGED <<type, date, platform, frags, pending, text>>
    /\ UNCHANGED sysvars

CallProcessTemplate ==
    /\ result.fn = "none"
    /\ result' = [fn |-> "processTemplate", out |-> processTemplate(template, date)]
    /\ UNCHANGED <<type, date, platform, frags, pending, text>>
    /\ UNCHANGED sysvars

Next == CallGetFilePath \/ CallProcessTemplate

Spec == Init /\ [][Next]_vars

(***************************************************************************)
(* The twelve statements of lines 56-73 run in an arbitrary order: each    *)
(* step applies one statement that has not run yet to `processed`.         *)
(***************************************************************************)
ShuffleDate == At(2024, 1, 15, 9, 7)

InitShortcuts ==
    /\ type = Morning
    /\ date = ShuffleDate
    /\ platform = "linux"
    /\ frags \in ShuffleTemplates
    /\ result = [fn |-> "none"]
    /\ pending = Shortcuts
    /\ text = template
    /\ SysIdle

ApplyShortcut ==
    /\ \E k \in pending :
          /\ text' = shortcutPass(text, date, k)
          /\ pending' = pending \ {k}
    /\ UNCHANGED <<type, date, platform, frags, result>>
    /\ UNCHANGED sysvars

NextShortcuts == ApplyShortcut

SpecShortcuts == InitShortcuts /\ [][NextShortcuts]_vars


(***************************************************************************)
(* config.ts: DEFAULT_CONFIG, loadConfig and saveConfig.                   *)
(***************************************************************************)
DEFAULT_CONFIG ==
    [vaultPath |-> "~/Google Drive/RKV-Journal", vaultName |-> "RKV-Journal",
     editor |-> "obsidian", defaultExtension |-> ".md"]

\* { ...a, ...b }: the properties of a, then those of b over them
spreadReversed(a, b) ==
    [f \in DOMAIN a \cup DOMAIN b |-> IF f \in DOMAIN a THEN a[f] ELSE b[f]]

spread(a, b) ==
    [f \in DOMAIN a \cup DOMAIN b |-> IF f \in DOMAIN b THEN b[f] ELSE a[f]]

\* fs.readJsonSync(configPath): the parsed value, or a throw when the file is
\* absent or is not JSON
readJsonSync(file) ==
    IF file.state = "json" THEN [kind |-> "ok", value |-> file.value]
    ELSE [kind |-> "error", message |-> file.state]

\* loadConfig: the defaults under the file's properties; the defaults alone
\* when reading throws
loadConfig(file) ==
    LET userConfig == readJsonSync(file)
    IN  IF userConfig.kind = "ok" THEN spread(DEFAULT_CONFIG, userConfig.value)
        ELSE DEFAULT_CONFIG

\* what a configuration file may hold for each property: a value other than
\* the default; "theme" is a property Config does not have
FileValues ==
    [vaultPath |-> "/notes", vaultName |-> "Notes", editor |-> "code",
     defaultExtension |-> ".txt", theme |-> "dark"]

JsonObjects == {[f \in D |-> FileValues[f]] : D \in SUBSET DOMAIN FileValues}

ConfigFiles == {MissingFile, CorruptFile} \cup {JsonFile(obj) : obj \in JsonObjects}

InitConfig ==
    /\ type = Morning
    /\ date = At(2024, 1, 15, 9, 7)
    /\ platform = "linux"
    /\ frags = <<>>
    /\ result = [fn |-> "none"]
    /\ pending = {}
    /\ text = <<>>
    /\ now = At(2024, 1, 15, 9, 7)
    /\ fs = [root |-> FALSE, dirs |-> {}, files |-> {}]
    /\ packaged = {}
    /\ config = NoConfig
    /\ launched = <<>>
    /\ calls = <<>>
    /\ steps = 0
    /\ configFile \in ConfigFiles
    /\ exec = NoExec

\* index.ts line 9, at the start of every run: const config = loadConfig()
LoadConfig ==
    /\ config' = loadConfig(configFile)
    /\ config' # config
    /\ UNCHANGED <<corevars, now, fs, packaged, launched, calls, steps, configFile, exec>>

\* saveConfig(config) with an edited vault name or editor
SaveConfig ==
    /\ config # NoConfig
    /\ \E f \in {"vaultName", "editor"} :
          configFile' = JsonFile([config EXCEPT ![f] = FileValues[f]])
    /\ configFile' # configFile
    /\ UNCHANGED <<corevars, now, fs, packaged, config, launched, calls, steps, exec>>

\* the file is deleted or damaged outside the program
LoseConfigFile ==
    /\ config # NoConfig
    /\ configFile.state = "json"
    /\ configFile' \in {MissingFile, CorruptFile}
    /\ UNCHANGED <<corevars, now, fs, packaged, config, launched, calls, steps, exec>>

NextConfig == LoadConfig \/ SaveConfig \/ LoseConfigFile

SpecConfig == InitConfig /\ [][NextConfig]_vars


(***************************************************************************)
(* luxon DateTime arithmetic and parsing used by the commands.             *)
(***************************************************************************)
\* dt.minus({ days: 1 })
minusDay(d) ==
    IF d.day > 1 THEN [d EXCEPT !.day = d.day - 1]
    ELSE IF d.month > 1
    THEN [d EXCEPT !.month = d.month - 1, !.day = daysInMonth(d.year, d.month - 1)]
    ELSE [d EXCEPT !.year = d.year - 1, !.month = 12, !.day = 31]

\* dt.plus({ days: 1 })
plusDay(d) ==
    IF d.day < daysInMonth(d.year, d.month) THEN [d EXCEPT !.day = d.day + 1]
    ELSE IF d.month < 12 THEN [d EXCEPT !.month = d.month + 1, !.day = 1]
    ELSE [d EXCEPT !.year = d.year + 1, !.month = 1, !.day = 1]

RECURSIVE minusDays(_, _)
minusDays(d, n) == IF n = 0 THEN d ELSE minusDays(minusDay(d), n - 1)

\* dt.startOf('week'): the Monday of the date's week, at 00:00
startOfWeek(d) ==
    [minusDays(d, gregorianToWeek(d).weekday - 1) EXCEPT !.hour = 0, !.minute = 0]

isDigit(c) == \E k \in 1..10 : DigitChars[k] = c

digitValue(c) == (CHOOSE k \in 1..10 : DigitChars[k] = c) - 1

\* the number written by the digits s[lo..hi]
RECURSIVE parseInt(_, _, _)
parseInt(s, lo, hi) ==
    IF hi < lo THEN 0 ELSE 10 * parseInt(s, lo, hi - 1) + digitValue(s[hi])

\* DateTime.fromISO(s) for calendar dates written YYYY-MM-DD; any other text
\* of the inputs is unparsable. An invalid DateTime carries no usable fields.
fromISO(s) ==
    IF /\ Len(s) = 10
       /\ s[5] = "-" /\ s[8] = "-"
       /\ \A i \in {1, 2, 3, 4, 6, 7, 9, 10} : isDigit(s[i])
    THEN [year |-> parseInt(s, 1, 4), month |-> parseInt(s, 6, 7),
          day |-> parseInt(s, 9, 10), hour |-> 0, minute |-> 0]
    ELSE [year |-> 0, month |-> 0, day |-> 0, hour |-> 0, minute |-> 0]

(***************************************************************************)
(* The vault as fs-extra sees it. Paths are relative to config.vaultPath   *)
(* and written with the separator of the host.                             *)
(***************************************************************************)
Inbox == <<"i","n","b","o","x">>
CapturesMd == <<"-","c","a","p","t","u","r","e","s",".","m","d">>
TemplatesDir == <<".","t","e","m","p","l","a","t","e","s">>
DailyDash == <<"d","a","i","l","y","-">>
Newline == "\n"

\* position of the last separator of p, or 0
lastSep(plat, p) ==
    LET at == {i \in 1..Len(p) : p[i] = pathSep(plat)}
    IN  IF at = {} THEN 0 ELSE CHOOSE i \in at : \A j \in at : j <= i

\* path.dirname(p) for a relative path: <<>> stands for the vault root
dirname(plat, p) ==
    IF lastSep(plat, p) = 0 THEN <<>> ELSE SubSeq(p, 1, lastSep(plat, p) - 1)

\* the directories on the way to p, p included: the prefixes of p that end
\* before a separator or at its end
dirsUpTo(plat, p) ==
    {SubSeq(p, 1, i) : i \in {i \in 1..Len(p) : i = Len(p) \/ p[i + 1] = pathSep(plat)}}

\* fs.pathExists(path.join(config.vaultPath, p))
pathExists(f, p) == f.root /\ ((\E e \in f.files : e.path = p) \/ p \in f.dirs)

\* fs.pathExists(config.vaultPath)
rootExists(f) == f.root

\* fs.ensureDir(path.join(config.vaultPath, dir)): the directory and every
\* missing directory above it, the vault root included
ensureDir(plat, f, dir) ==
    [f EXCEPT !.root = TRUE,
              !.dirs = IF dir = <<>> THEN f.dirs ELSE f.dirs \cup dirsUpTo(plat, dir)]

\* the files, a set of [path, content], with `content` at p
withFile(files, p, content) ==
    {e \in files : e.path # p} \cup {[path |-> p, content |-> content]}

\* fs.writeFile(path.join(config.vaultPath, p), content)
writeFile(f, p, content) == [f EXCEPT !.files = withFile(f.files, p, content)]

\* fs.appendFile(path.join(config.vaultPath, p), more)
\* fs.readFile(path.join(config.vaultPath, p), 'utf-8')
readFile(f, p) == (CHOOSE e \in f.files : e.path = p).content

\* fs.appendFile(path.join(config.vaultPath, p), more)
appendFile(f, p, more) ==
    [f EXCEPT !.files =
        withFile(f.files, p,
                 (IF \E e \in f.files : e.path = p THEN readFile(f, p) ELSE <<>>) \o more)]


(***************************************************************************)
(* utils/obsidian.ts as the commands use it, and commands/new.ts,          *)
(* commands/log.ts, commands/open.ts. A command's effect is the vault it   *)
(* leaves, the editor launches it makes and what it reports.               *)
(***************************************************************************)
\* openInObsidian(filePath, config): the exec of the platform's opener on the
\* obsidian:// URI of the vault name and the path without a leading slash
launchOf(filePath, cfg) ==
    [file |-> IF StartsWith(filePath, <<"/">>) THEN Tail(filePath) ELSE filePath,
     vault |-> cfg.vaultName]

\* getDefaultEntryType with now.hour
getDefaultEntryType(n) == IF n.hour < 12 THEN Morning ELSE Evening

\* getTemplateKey with the fallback `daily-${type}` taken for every type
getTemplateKeyFallback(ty) == DailyDash \o ty

\* getTemplateKey: templateMap[type] || `daily-${type}`
getTemplateKey(ty) ==
    CASE ty \in {Morning, Evening} -> DailyDash \o ty
      [] ty \in {WeeklyStart, WeeklyEnd, MonthlyStart, MonthlyEnd} -> ty
      [] OTHER -> DailyDash \o ty

\* the options of `rkv new`: --date <text>, --tomorrow, --yesterday
Options(dateText, tomorrow, yesterday) ==
    [date |-> dateText, tomorrow |-> tomorrow, yesterday |-> yesterday]

\* parseTargetDate with the branches of --yesterday and --tomorrow exchanged
parseTargetDateYesterdayFirst(n, opt) ==
    IF opt.date # <<>>
    THEN CHOOSE r \in {IF ~isValid(parsed) THEN Thrown("Invalid date format", opt.date)
                       ELSE Ok(parsed) : parsed \in {fromISO(opt.date)}} : TRUE
    ELSE IF opt.yesterday THEN Ok(minusDay(n))
    ELSE IF opt.tomorrow THEN Ok(plusDay(n))
    ELSE Ok(n)

\* parseTargetDate, with parsed = DateTime.fromISO(options.date)
parseTargetDate(n, opt) ==
    IF opt.date # <<>>
    THEN CHOOSE r \in {IF ~isValid(parsed) THEN Thrown("Invalid date format", opt.date)
                       ELSE Ok(parsed) : parsed \in {fromISO(opt.date)}} : TRUE
    ELSE IF opt.tomorrow THEN Ok(plusDay(n))
    ELSE IF opt.yesterday THEN Ok(minusDay(n))
    ELSE Ok(n)

\* .templates/<key>.md in the vault
vaultTemplatePath(plat, key) == pathJoin(plat, <<TemplatesDir, key \o DotMd>>)

\* lines 126-137 of commands/new.ts: the editor step
editorStep(filePath, cfg) ==
    IF cfg.editor = "obsidian" THEN <<launchOf(filePath, cfg)>> ELSE <<>>

\* lines 88-109 with the packaged template looked up first
loadTemplatePackagedFirst(plat, f, pk, key) ==
    IF \E e \in pk : e.key = key
    THEN [key |-> key, found |-> TRUE, from |-> "packaged",
          content |-> (CHOOSE e \in pk : e.key = key).content]
    ELSE IF pathExists(f, vaultTemplatePath(plat, key))
    THEN [key |-> key, found |-> TRUE, from |-> "vault",
          content |-> readFile(f, vaultTemplatePath(plat, key))]
    ELSE [key |-> key, found |-> FALSE, from |-> "none", content |-> <<>>]

\* lines 88-109 of commands/new.ts: the template of the entry
loadTemplate(plat, f, pk, key) ==
    IF pathExists(f, vaultTemplatePath(plat, key))
    THEN [key |-> key, found |-> TRUE, from |-> "vault",
          content |-> readFile(f, vaultTemplatePath(plat, key))]
    ELSE IF \E e \in pk : e.key = key
    THEN [key |-> key, found |-> TRUE, from |-> "packaged",
          content |-> (CHOOSE e \in pk : e.key = key).content]
    ELSE [key |-> key, found |-> FALSE, from |-> "none", content |-> <<>>]

\* a return that leaves the vault folder created behind it
stoppedAfterMkdir(f, why) ==
    [fs |-> [f EXCEPT !.root = TRUE], launch |-> <<>>,
     out |-> [status |-> why, path |-> <<>>, from |-> "none", key |-> <<>>]]

\* a return before the entry is looked up: nothing written, nothing launched
stopped(f, why) ==
    [fs |-> f, launch |-> <<>>,
     out |-> [status |-> why, path |-> <<>>, from |-> "none", key |-> <<>>]]

\* lines 83-137 of commands/new.ts for the entry at filePath
createOrOpenAt(plat, f, pk, cfg, ty, target, filePath) ==
    LET tpl == loadTemplate(plat, f, pk, getTemplateKey(ty))
    IN  IF pathExists(f, filePath)
        THEN [fs |-> f, launch |-> editorStep(filePath, cfg),
              out |-> [status |-> "exists", path |-> filePath, from |-> "none",
                       key |-> <<>>]]
        ELSE IF ~tpl.found
        THEN [fs |-> f, launch |-> <<>>,
              out |-> [status |-> "no-template", path |-> filePath, from |-> "none",
                       key |-> tpl.key]]
        ELSE [fs |-> writeFile(ensureDir(plat, f, dirname(plat, filePath)), filePath,
                               processTemplate(tpl.content, target).value),
              launch |-> editorStep(filePath, cfg),
              out |-> [status |-> "created", path |-> filePath, from |-> tpl.from,
                       key |-> tpl.key]]

\* lines 79-137 of commands/new.ts for a valid type and date; filePath is
\* computed once, as const filePath of line 80 is
createOrOpen(plat, f, pk, cfg, ty, target) ==
    CHOOSE r \in {createOrOpenAt(plat, f, pk, cfg, ty, target, filePath) :
                     filePath \in {getFilePath(plat, ty, target).value}} : TRUE

\* lines 48-77 of commands/new.ts, with the target date parsed
newCommandOn(plat, n, f, pk, cfg, entryType, target) ==
    IF ~rootExists(f) THEN stopped(f, "vault-not-found")
    ELSE IF ~validateEntryType(entryType) THEN stopped(f, "invalid-type")
    ELSE IF target.kind = "error" THEN stopped(f, "invalid-date")
    ELSE createOrOpen(plat, f, pk, cfg, entryType, target.value)

\* newCommand(config, type, options); an absent type is the empty text. The
\* target date is parsed once, as const targetDate of line 73 is.
newCommand(plat, n, f, pk, cfg, ty, opt) ==
    CHOOSE r \in {newCommandOn(plat, n, f, pk, cfg,
                               IF ty = <<>> THEN getDefaultEntryType(n) ELSE ty, target) :
                     target \in {parseTargetDate(n, opt)}} : TRUE

\* the capture file of the day, relative to the vault
captureFile(plat, n) ==
    pathJoin(plat, <<Inbox, toFormat(n, <<"y","y","y","y","-","M","M","-","d","d">>)
                              \o CapturesMd>>)

captureHeader(n) ==
    <<"#"," ","C","a","p","t","u","r","e","s"," ","-"," ">>
        \o toFormat(n, <<"y","y","y","y","-","M","M","-","d","d">>)
        \o <<Newline, Newline>>

logEntry(n, message) ==
    <<"-", " ">> \o toFormat(n, <<"H","H",":","m","m">>) \o <<" ", "-", " ">>
        \o message \o <<Newline>>

\* content.split('\n').filter(line => line.startsWith('- ')).length of line
\* 41: a line starts at the first character and after every line break
captureCount(content) ==
    Cardinality({i \in 1..(Len(content) - 1) :
        /\ i = 1 \/ content[i - 1] = Newline
        /\ content[i] = "-"
        /\ content[i + 1] = " "})

\* what logCommand prints after the append (lines 37-42)
logged(f, file) ==
    [fs |-> f,
     launch |-> <<>>,
     out |-> [status |-> "logged", path |-> file, from |-> "none",
              count |-> captureCount(readFile(f, file))]]

\* lines 19-35 of commands/log.ts with the header written on every run
logIntoHeaded(plat, n, f, message, file) ==
    logged(appendFile(writeFile(ensureDir(plat, f, Inbox), file, captureHeader(n)),
                      file, logEntry(n, message)), file)

\* lines 19-42 of commands/log.ts for the capture file `file`
logInto(plat, n, f, message, file) ==
    LET made == ensureDir(plat, f, Inbox)
        headed == IF pathExists(made, file) THEN made
                  ELSE writeFile(made, file, captureHeader(n))
    IN  logged(appendFile(headed, file, logEntry(n, message)), file)

\* logCommand(config, messageParts) with the parts joined; the capture file
\* is computed once, as const captureFile of line 13 is
logCommand(plat, n, f, message) ==
    CHOOSE r \in {logInto(plat, n, f, message, file) : file \in {captureFile(plat, n)}} : TRUE

Today == <<"t","o","d","a","y">>
Yesterday == <<"y","e","s","t","e","r","d","a","y">>
Week == <<"w","e","e","k">>
Captures == <<"c","a","p","t","u","r","e","s">>

\* lines 86-87, 90-91 and 106-107: evening first, then morning
DayKinds == <<Evening, Morning>>

\* lines 85-108 of commands/open.ts: the entry types and the day the
\* candidates are entries of; `captures` marks the capture file of the day
lookup(n, arg) ==
    IF arg = <<>> \/ arg = Today THEN [kinds |-> DayKinds, day |-> n, captures |-> FALSE]
    ELSE IF arg = Yesterday
    THEN [kinds |-> DayKinds, day |-> minusDay(n), captures |-> FALSE]
    ELSE IF arg = Week
    THEN [kinds |-> <<WeeklyStart>>, day |-> startOfWeek(n), captures |-> FALSE]
    ELSE IF arg = Captures \/ arg = Inbox
    THEN [kinds |-> <<>>, day |-> n, captures |-> TRUE]
    ELSE [kinds |-> DayKinds, day |-> fromISO(arg), captures |-> FALSE]

\* line 98 with the date written without zero padding
capturesPathUnpadded(plat, n) ==
    pathJoin(plat, <<Inbox, toFormat(n, <<"y","y","y","y","-","M","-","d">>) \o CapturesMd>>)

\* line 98 of commands/open.ts: the candidate of `captures` and `inbox`
capturesPath(plat, n) ==
    pathJoin(plat, <<Inbox, toFormat(n, <<"y","y","y","y","-","M","M","-","d","d">>)
                              \o CapturesMd>>)

\* the candidate paths of a lookup; an invalid day is the invalid argument
\* of lines 102-105
pathsOf(plat, arg, l) ==
    IF l.captures THEN Ok(<<capturesPath(plat, l.day)>>)
    ELSE IF ~isValid(l.day) THEN Thrown("Invalid date or keyword", arg)
    ELSE Ok([k \in 1..Len(l.kinds) |-> getFilePath(plat, l.kinds[k], l.day).value])

\* lines 85-109 of commands/open.ts: potentialPaths, or the invalid argument
potentialPaths(plat, n, arg) ==
    CHOOSE r \in {pathsOf(plat, arg, l) : l \in {lookup(n, arg)}} : TRUE

\* the last existing candidate
lastExisting(f, paths) ==
    LET at == {k \in 1..Len(paths) : pathExists(f, paths[k])}
    IN  IF at = {} THEN <<>> ELSE paths[CHOOSE k \in at : \A j \in at : j <= k]

\* lines 111-117 of commands/open.ts: the first existing candidate, or <<>>
firstExisting(f, paths) ==
    LET at == {k \in 1..Len(paths) : pathExists(f, paths[k])}
    IN  IF at = {} THEN <<>> ELSE paths[firstOf(at)]

\* lines 110-125 with the editor launched on the first candidate even when
\* no candidate exists
openFirstRegardless(f, cfg, paths) ==
    LET target == firstExisting(f, paths)
    IN  IF target # <<>>
        THEN [fs |-> f, launch |-> <<launchOf(target, cfg)>>,
              out |-> [status |-> "opened", path |-> target, candidates |-> paths]]
        ELSE [fs |-> f, launch |-> <<launchOf(paths[1], cfg)>>,
              out |-> [status |-> "not-found", path |-> <<>>, candidates |-> paths]]

\* lines 110-125 of commands/open.ts for the candidates `paths`
openFirst(f, cfg, paths) ==
    LET target == firstExisting(f, paths)
    IN  IF target # <<>>
        THEN [fs |-> f, launch |-> <<launchOf(target, cfg)>>,
              out |-> [status |-> "opened", path |-> target, candidates |-> paths]]
        ELSE [fs |-> f, launch |-> <<>>,
              out |-> [status |-> "not-found", path |-> <<>>, candidates |-> paths]]

\* openCommand(config, dateOrKeyword); an absent argument is the empty text
openCommand(plat, n, f, cfg, arg) ==
    CHOOSE r \in {IF cands.kind = "error"
                  THEN [fs |-> f, launch |-> <<>>,
                        out |-> [status |-> "invalid", path |-> <<>>, candidates |-> <<>>]]
                  ELSE openFirst(f, cfg, cands.value) :
                     cands \in {potentialPaths(plat, n, arg)}} : TRUE


(***************************************************************************)
(* Runs of the commands: each step is one run of `rkv new`, `rkv log` or   *)
(* `rkv open` against the vault the previous runs left, or one call of     *)
(* getFilePath or processTemplate.                                         *)
(***************************************************************************)
\* the clock of a run: a Monday morning, and the evening of New Year 2025, a
\* Wednesday of the ISO week that began on Monday 30 December 2024
NowDates == {At(2024, 1, 15, 9, 7), At(2025, 1, 1, 21, 30)}

IsoArg == <<"2","0","2","4","-","1","2","-","3","1">>
BadIsoArg == <<"2","0","2","4","-","1","3","-","0","1">>
Someday == <<"s","o","m","e","d","a","y">>

UserText == <<"m","i","n","e">>
VaultTemplateText == <<"V", " ">> \o FYear
PackagedTemplateText == <<"P", " ">> \o FBare

TemplateKeys == {getTemplateKey(Morning), getTemplateKey(Evening), WeeklyStart}

\* the templates shipped next to the compiled commands
PackagedTemplates == {[key |-> k, content |-> PackagedTemplateText] : k \in TemplateKeys}

\* entries written by the user before the runs: for each kind, the entry of
\* today, of yesterday and of the day IsoArg names
EntryPaths(plat, n, kinds) ==
    {getFilePath(plat, k, d).value : k \in kinds, d \in {n, minusDay(n), fromISO(IsoArg)}}

TemplatePaths(plat) == {vaultTemplatePath(plat, k) : k \in TemplateKeys}

Vault(plat, n, w) ==
    IF ~w.root THEN [root |-> FALSE, dirs |-> {}, files |-> {}]
    ELSE [root |-> TRUE,
          dirs |-> UNION {dirsUpTo(plat, dirname(plat, p)) :
                             p \in EntryPaths(plat, n, w.kinds)
                                   \cup (IF w.vaultTpl THEN TemplatePaths(plat) ELSE {})},
          files |-> {[path |-> p, content |-> UserText] : p \in EntryPaths(plat, n, w.kinds)}
                    \cup (IF w.vaultTpl
                          THEN {[path |-> p, content |-> VaultTemplateText] :
                                   p \in TemplatePaths(plat)}
                          ELSE {})]

World(root, kinds, vaultTpl, pkg, file) ==
    [root |-> root, kinds |-> kinds, vaultTpl |-> vaultTpl, pkg |-> pkg, file |-> file]

CodeEditorFile == JsonFile([editor |-> FileValues.editor, vaultName |-> FileValues.vaultName])

Worlds ==
    {World(FALSE, {}, FALSE, TRUE, MissingFile),
     World(TRUE, {}, TRUE, TRUE, MissingFile),
     World(TRUE, {Morning}, FALSE, FALSE, MissingFile),
     World(TRUE, {Evening, Morning}, FALSE, TRUE, MissingFile),
     World(TRUE, {Morning}, FALSE, TRUE, CodeEditorFile),
     World(TRUE, {Evening}, TRUE, FALSE, MissingFile)}

\* the hosts of the runs: every world on Linux, one of them on Windows too
Hosts ==
    {[platform |-> "linux", world |-> w] : w \in Worlds}
        \cup {[platform |-> "win32", world |-> World(TRUE, {Evening, Morning}, FALSE, TRUE, MissingFile)]}

InitCommands ==
    /\ type = Morning
    /\ date = At(2024, 1, 15, 9, 7)
    /\ frags = <<>>
    /\ pending = {}
    /\ text = <<>>
    /\ exec = NoExec
    /\ launched = <<>>
    /\ calls = <<>>
    /\ steps = 0
    /\ now \in NowDates
    /\ \E h \in Hosts :
          /\ platform = h.platform
          /\ fs = Vault(h.platform, now, h.world)
          /\ packaged = (IF h.world.pkg THEN PackagedTemplates ELSE {})
          /\ configFile = h.world.file
          /\ config = loadConfig(h.world.file)
    /\ result = [fn |-> "none"]

NewTypes == {<<>>, WeeklyStart, BogusType}

NewOptions ==
    {Options(<<>>, FALSE, FALSE), Options(IsoArg, FALSE, FALSE),
     Options(BadIsoArg, FALSE, FALSE)}

OpenArgs == {<<>>, Today, Yesterday, Week, Captures, Inbox, IsoArg, Someday}

Messages == {<<"h","i">>}

\* rkv new [type] [--date d | --tomorrow | --yesterday]
NewCommand ==
    /\ steps < MaxSteps
    /\ \E ty \in NewTypes, opt \in NewOptions :
          \E r \in {newCommand(platform, now, fs, packaged, config, ty, opt)} :
              /\ fs' = r.fs
              /\ launched' = launched \o r.launch
              /\ result' = [fn |-> "newCommand", args |-> <<ty, opt>>, out |-> r.out]
    /\ steps' = steps + 1
    /\ UNCHANGED <<type, date, platform, frags, pending, text>>
    /\ UNCHANGED <<now, packaged, config, calls, configFile, exec>>

\* rkv log <message...>
LogCommand ==
    /\ steps < MaxSteps
    /\ \E message \in Messages :
          \E r \in {logCommand(platform, now, fs, message)} :
              /\ fs' = r.fs
              /\ launched' = launched \o r.launch
              /\ result' = [fn |-> "logCommand", args |-> <<message>>, out |-> r.out]
    /\ steps' = steps + 1
    /\ UNCHANGED <<type, date, platform, frags, pending, text>>
    /\ UNCHANGED <<now, packaged, config, calls, configFile, exec>>

\* rkv open [date|keyword]
OpenCommand ==
    /\ steps < MaxSteps
    /\ \E arg \in OpenArgs :
          \E r \in {openCommand(platform, now, fs, config, arg)} :
              /\ fs' = r.fs
              /\ launched' = launched \o r.launch
              /\ result' = [fn |-> "openCommand", args |-> <<arg>>, out |-> r.out]
    /\ steps' = steps + 1
    /\ UNCHANGED <<type, date, platform, frags, pending, text>>
    /\ UNCHANGED <<now, packaged, config, calls, configFile, exec>>

\* what the caller of one of the two functions gets: the returned text, or
\* the message of the Error thrown
observed(r) ==
    IF r.kind = "ok" THEN [kind |-> "ok", value |-> r.value, message |-> ""]
    ELSE [kind |-> "error", value |-> <<>>, message |-> r.message]

\* a call of getFilePath from anywhere, between the runs
GetFilePathCall ==
    /\ steps < MaxSteps
    /\ \E ty \in {Evening}, d \in {now, fromISO(BadIsoArg)} :
          \E out \in {observed(getFilePath(platform, ty, d))} :
              /\ calls' = Append(calls, [fn |-> "getFilePath", args |-> <<ty, d>>, out |-> out])
              /\ result' = [fn |-> "getFilePath", args |-> <<ty, d>>, out |-> out]
    /\ steps' = steps + 1
    /\ UNCHANGED <<type, date, platform, frags, pending, text>>
    /\ UNCHANGED <<now, fs, packaged, config, launched, configFile, exec>>

\* a call of processTemplate from anywhere, between the runs
ProcessTemplateCall ==
    /\ steps < MaxSteps
    /\ \E tpl \in {VaultTemplateText}, d \in {now} :
          \E out \in {observed(processTemplate(tpl, d))} :
              /\ calls' = Append(calls, [fn |-> "processTemplate", args |-> <<tpl, d>>, out |-> out])
              /\ result' = [fn |-> "processTemplate", args |-> <<tpl, d>>, out |-> out]
    /\ steps' = steps + 1
    /\ UNCHANGED <<type, date, platform, frags, pending, text>>
    /\ UNCHANGED <<now, fs, packaged, config, launched, configFile, exec>>

NextCommands ==
    NewCommand \/ LogCommand \/ OpenCommand \/ GetFilePathCall \/ ProcessTemplateCall

SpecCommands == InitCommands /\ [][NextCommands]_vars


(***************************************************************************)
(* utils/obsidian.ts: one call of openInObsidian, step by step. `exec`     *)
(* holds the call: where it stands, the command it built, how often it ran *)
(* the command, the error of the run and what it printed to the console.   *)
(***************************************************************************)
\* encodeURIComponent of one character of a path
encodeChar(c) ==
    CASE c = "/" -> <<"%", "2", "F">>
      [] c = "\\" -> <<"%", "5", "C">>
      [] c = " " -> <<"%", "2", "0">>
      [] OTHER -> <<c>>

encodeURIComponent(t) == Flatten([i \in 1..Len(t) |-> encodeChar(t[i])])

\* lines 114-128: the opener of the platform, and the warning of the default
opener(plat) ==
    CASE plat = "darwin" -> "open"
      [] plat = "win32" -> "start"
      [] plat = "linux" -> "xdg-open"
      [] OTHER -> "xdg-open"

platformWarnings(plat) ==
    IF plat \in {"darwin", "win32", "linux"} THEN <<>> ELSE <<"Untested platform">>

\* lines 105-130: the command of the call and what is printed before it runs
built(plat, filePath, cfg) ==
    [pc |-> "built",
     command |-> [opener |-> opener(plat),
                  vault |-> cfg.vaultName,
                  file |-> encodeURIComponent(launchOf(filePath, cfg).file)],
     runs |-> 0,
     error |-> [code |-> "none", signal |-> "none"],
     console |-> platformWarnings(plat) \o <<"Opening in Obsidian">>]

\* the errors execAsync(command, { timeout: 5000 }) rejects with: the command
\* is not found, the 5 seconds pass and the child is killed, the command exits
\* with a failure
ExecErrors ==
    {[code |-> "ENOENT", signal |-> "none"],
     [code |-> "none", signal |-> "SIGTERM"],
     [code |-> "1", signal |-> "none"]}

\* lines 137-149: the message of the error
errorReport(error) ==
    IF error.code = "ENOENT" THEN "Failed to open in Obsidian: Command not found"
    ELSE IF error.signal = "SIGTERM" THEN "Obsidian open command timed out"
    ELSE "Failed to open in Obsidian: error.message"

\* a catch block that runs the command again
catchAndRetry(p, error) ==
    [p EXCEPT !.pc = "built", !.error = error,
              !.console = p.console \o <<errorReport(error)>>]

\* lines 135-157: the catch block, after which the function returns
catch(p, error) ==
    [p EXCEPT !.pc = "returned", !.error = error,
              !.console = p.console \o <<errorReport(error), "Troubleshooting">>]

LaunchPaths ==
    {<<"/", "a", ".", "m", "d">>, <<"d", "/", "a", " ", "b", ".", "m", "d">>,
     <<"d", "\\", "a", ".", "m", "d">>}

InitLaunch ==
    /\ type = Morning
    /\ date = At(2024, 1, 15, 9, 7)
    /\ frags = <<>>
    /\ pending = {}
    /\ text = <<>>
    /\ result = [fn |-> "none"]
    /\ now = At(2024, 1, 15, 9, 7)
    /\ fs = [root |-> FALSE, dirs |-> {}, files |-> {}]
    /\ packaged = {}
    /\ launched = <<>>
    /\ calls = <<>>
    /\ steps = 0
    /\ platform \in {"darwin", "win32", "linux", "freebsd"}
    /\ configFile \in {MissingFile, CodeEditorFile}
    /\ config = loadConfig(configFile)
    /\ exec \in {[pc |-> "called", filePath |-> p] : p \in LaunchPaths}

\* lines 103-130: the URI and the command are built
BuildCommand ==
    /\ exec.pc = "called"
    /\ exec' = built(platform, exec.filePath, config)
    /\ UNCHANGED <<corevars, now, fs, packaged, config, launched, calls, steps, configFile>>

\* line 133: execAsync(command, { timeout: 5000 }) starts the command
ExecCommand ==
    /\ exec.pc = "built"
    /\ exec' = [exec EXCEPT !.pc = "awaiting", !.runs = exec.runs + 1]
    /\ launched' = Append(launched, exec.command)
    /\ UNCHANGED <<corevars, now, fs, packaged, config, calls, steps, configFile>>

\* line 133: the promise resolves and the function returns
ExecResolves ==
    /\ exec.pc = "awaiting"
    /\ exec' = [exec EXCEPT !.pc = "returned"]
    /\ UNCHANGED <<corevars, now, fs, packaged, config, launched, calls, steps, configFile>>

\* lines 133-157: the promise rejects and the catch block runs
ExecRejects ==
    /\ exec.pc = "awaiting"
    /\ \E error \in ExecErrors : exec' = catch(exec, error)
    /\ UNCHANGED <<corevars, now, fs, packaged, config, launched, calls, steps, configFile>>

NextLaunch == BuildCommand \/ ExecCommand \/ ExecResolves \/ ExecRejects

SpecLaunch == InitLaunch /\ [][NextLaunch]_vars


(***************************************************************************)
(* Runs of `rkv log` one after the other, with the clock moving between    *)
(* them: each step is one whole run of logCommand or one minute passing.   *)
(* `calls` keeps what was logged, in order.                                *)
(***************************************************************************)
\* the minute after d, as the wall clock DateTime.now() reads moves
plusMinute(d) ==
    IF d.minute < 59 THEN [d EXCEPT !.minute = d.minute + 1]
    ELSE IF d.hour < 23 THEN [d EXCEPT !.hour = d.hour + 1, !.minute = 0]
    ELSE [plusDay(d) EXCEPT !.hour = 0, !.minute = 0]

\* a morning, and the last minute of a year
LogClocks == {At(2024, 1, 15, 9, 7), At(2024, 12, 31, 23, 59)}

\* messages: a word, nothing, two lines, and a second line that reads as a
\* list item
LogMessages ==
    {<<"h","i">>, <<>>, <<"a", Newline, "b">>, <<"a", Newline, "-", " ", "b">>}

\* the vault before the first run: none, an empty one, one whose capture
\* file of the day the user wrote by hand, one whose capture file is empty
LogVaults(plat, n) ==
    {[root |-> FALSE, dirs |-> {}, files |-> {}],
     [root |-> TRUE, dirs |-> {}, files |-> {}],
     [root |-> TRUE, dirs |-> dirsUpTo(plat, Inbox),
      files |-> {[path |-> captureFile(plat, n), content |-> UserText]}],
     [root |-> TRUE, dirs |-> dirsUpTo(plat, Inbox),
      files |-> {[path |-> captureFile(plat, n), content |-> <<>>]}]}

InitLog ==
    /\ type = Morning
    /\ date = At(2024, 1, 15, 9, 7)
    /\ frags = <<>>
    /\ pending = {}
    /\ text = <<>>
    /\ result = [fn |-> "none"]
    /\ packaged = {}
    /\ launched = <<>>
    /\ calls = <<>>
    /\ steps = 0
    /\ configFile = MissingFile
    /\ config = loadConfig(configFile)
    /\ exec = NoExec
    /\ platform \in {"linux", "win32"}
    /\ now \in LogClocks
    /\ fs \in LogVaults(platform, now)

\* rkv log <message...>, start to end
LogRun ==
    /\ steps < MaxLogs
    /\ \E message \in LogMessages :
          \E r \in {logCommand(platform, now, fs, message)} :
              /\ fs' = r.fs
              /\ result' = [fn |-> "logCommand", args |-> <<message>>, out |-> r.out]
              /\ calls' = Append(calls, [path |-> r.out.path, clock |-> now,
                                         message |-> message, count |-> r.out.count,
                                         made |-> ~pathExists(fs, r.out.path)])
    /\ steps' = steps + 1
    /\ UNCHANGED <<type, date, platform, frags, pending, text>>
    /\ UNCHANGED <<now, packaged, config, launched, configFile, exec>>

\* a minute passes between two runs
ClockTick ==
    /\ steps < MaxLogs
    /\ now' = plusMinute(now)
    /\ steps' = steps + 1
    /\ result' = [fn |-> "none"]
    /\ UNCHANGED <<type, date, platform, frags, pending, text>>
    /\ UNCHANGED <<fs, packaged, config, launched, calls, configFile, exec>>

NextLog ==
    \/ LogRun
    \/ ClockTick

SpecLog == InitLog /\ [][NextLog]_vars


(***************************************************************************)
(* Runs of `rkv log` that overlap: each run is a process of its own, and   *)
(* each await of logCommand (lines 20, 23, 27, 35, 40) is one step, so the *)
(* steps of the runs interleave on the one vault. exec[p] is the position  *)
(* of run p with its message and what its existence check answered.        *)
(***************************************************************************)
Procs == 1..MaxProcs

\* run p logs the message "m<p>"
messageOf(p) == <<"m">> \o NumStr(p)

InitRace ==
    /\ type = Morning
    /\ date = At(2024, 1, 15, 9, 7)
    /\ frags = <<>>
    /\ pending = {}
    /\ text = <<>>
    /\ result = [fn |-> "none"]
    /\ packaged = {}
    /\ launched = <<>>
    /\ calls = <<>>
    /\ steps = 0
    /\ configFile = MissingFile
    /\ config = loadConfig(configFile)
    /\ platform \in {"linux", "win32"}
    /\ now = At(2024, 1, 15, 9, 7)
    /\ fs \in LogVaults(platform, now)
    /\ exec = [p \in Procs |-> [pc |-> "called", exists |-> FALSE]]

\* line 20: await fs.ensureDir(path.join(config.vaultPath, 'inbox'))
EnsureInbox(p) ==
    /\ exec[p].pc = "called"
    /\ fs' = ensureDir(platform, fs, Inbox)
    /\ exec' = [exec EXCEPT ![p].pc = "ensured"]
    /\ UNCHANGED <<corevars, now, packaged, config, launched, calls, steps, configFile>>

\* line 23: await fs.pathExists(captureFile)
CheckExists(p) ==
    /\ exec[p].pc = "ensured"
    /\ exec' = [exec EXCEPT ![p].pc = "checked",
                            ![p].exists = pathExists(fs, captureFile(platform, now))]
    /\ UNCHANGED <<corevars, now, fs, packaged, config, launched, calls, steps, configFile>>

\* lines 23-28: the header is written when the check answered no
WriteHeader(p) ==
    /\ exec[p].pc = "checked"
    /\ fs' = IF exec[p].exists THEN fs
             ELSE writeFile(fs, captureFile(platform, now), captureHeader(now))
    /\ exec' = [exec EXCEPT ![p].pc = "headed"]
    /\ UNCHANGED <<corevars, now, packaged, config, launched, calls, steps, configFile>>

\* line 35: await fs.appendFile(captureFile, logEntry)
AppendEntry(p) ==
    /\ exec[p].pc = "headed"
    /\ fs' = appendFile(fs, captureFile(platform, now), logEntry(now, messageOf(p)))
    /\ exec' = [exec EXCEPT ![p].pc = "appended"]
    /\ UNCHANGED <<corevars, now, packaged, config, launched, calls, steps, configFile>>

\* lines 37-42: the file is read back and the count printed
ReadAndCount(p) ==
    /\ exec[p].pc = "appended"
    /\ \E r \in {logged(fs, captureFile(platform, now))} :
          result' = [fn |-> "logCommand", args |-> <<messageOf(p)>>, out |-> r.out]
    /\ exec' = [exec EXCEPT ![p].pc = "done"]
    /\ UNCHANGED <<type, date, platform, frags, pending, text>>
    /\ UNCHANGED <<now, fs, packaged, config, launched, calls, steps, configFile>>

NextRace ==
    \E p \in Procs :
        \/ EnsureInbox(p)
        \/ CheckExists(p)
        \/ WriteHeader(p)
        \/ AppendEntry(p)
        \/ ReadAndCount(p)

SpecRace == InitRace /\ [][NextRace]_vars


(***************************************************************************)
(* parseTargetDate on its own: the clock and the options of one run of     *)
(* `rkv new` are drawn, exec holds the options, and the one step is the    *)
(* call.                                                                   *)
(***************************************************************************)
\* clocks around the ends of months and years, leap day included
TargetClocks ==
    {At(2024, 1, 15, 9, 7), At(2024, 2, 28, 21, 30), At(2024, 2, 29, 12, 0),
     At(2024, 3, 1, 0, 0), At(2023, 2, 28, 8, 0), At(2024, 12, 31, 23, 59),
     At(2025, 1, 1, 0, 0)}

LeapIsoArg == <<"2","0","2","4","-","0","2","-","2","9">>
NoLeapIsoArg == <<"2","0","2","3","-","0","2","-","2","9">>

\* --date absent, valid, out of range and not a date at all
TargetDateTexts == {<<>>, IsoArg, LeapIsoArg, BadIsoArg, NoLeapIsoArg, Someday}

TargetOptions ==
    {Options(dt, tm, ye) : dt \in TargetDateTexts, tm \in BOOLEAN, ye \in BOOLEAN}

InitTargetDate ==
    /\ type = Morning
    /\ date = At(2024, 1, 15, 9, 7)
    /\ frags = <<>>
    /\ pending = {}
    /\ text = <<>>
    /\ result = [fn |-> "none"]
    /\ platform = "linux"
    /\ fs = [root |-> FALSE, dirs |-> {}, files |-> {}]
    /\ packaged = {}
    /\ launched = <<>>
    /\ calls = <<>>
    /\ steps = 0
    /\ configFile = MissingFile
    /\ config = loadConfig(configFile)
    /\ now \in TargetClocks
    /\ exec \in {[pc |-> "called", options |-> opt] : opt \in TargetOptions}

\* const targetDate = parseTargetDate(options)
ParseTargetDate ==
    /\ exec.pc = "called"
    /\ result' = [fn |-> "parseTargetDate", args |-> <<exec.options>>,
                  out |-> parseTargetDate(now, exec.options)]
    /\ exec' = [exec EXCEPT !.pc = "returned"]
    /\ UNCHANGED <<type, date, platform, frags, pending, text>>
    /\ UNCHANGED <<now, fs, packaged, config, launched, calls, steps, configFile>>

NextTargetDate == ParseTargetDate

SpecTargetDate == InitTargetDate /\ [][NextTargetDate]_vars


(***************************************************************************)
(* commands/init.ts: `rkv init`. The answers to the prompts and the point  *)
(* at which a file system call fails, if one does, are inputs of the run.  *)
(* The vault `fs` is the directory the answered path names.                *)
(***************************************************************************)
Quarterly == <<"q","u","a","r","t","e","r","l","y">>
WelcomeMd == <<"W","e","l","c","o","m","e"," ","t","o"," ","R","K","V",".","m","d">>

\* const folders of the init command, joined to the vault path
folders(plat, n) ==
    <<pathJoin(plat, <<Daily, pathYear(n), pathMonth(n)>>),
      pathJoin(plat, <<Weekly, pathYear(n)>>),
      pathJoin(plat, <<Monthly, pathYear(n)>>),
      pathJoin(plat, <<Quarterly, pathYear(n)>>),
      Inbox,
      TemplatesDir>>

\* for (const folder of folders) await fs.ensureDir(fullPath), as far as the
\* k-th folder
RECURSIVE ensureFolders(_, _, _, _)
ensureFolders(plat, f, dirs, k) ==
    IF k = 0 THEN f
    ELSE ensureDir(plat, ensureFolders(plat, f, dirs, k - 1), dirs[k])

\* fs.copy with overwrite: true: every template of the package is written
copyOverwriting(plat, f, pk) ==
    [f EXCEPT !.files =
        {e \in f.files : \A t \in pk : e.path # vaultTemplatePath(plat, t.key)}
            \cup {[path |-> vaultTemplatePath(plat, t.key), content |-> t.content] : t \in pk}]

\* fs.copy(sourceTemplateDir, vaultTemplateDir, { overwrite: false,
\* errorOnExist: false }): the templates the vault does not hold yet
copy(plat, f, pk) ==
    [f EXCEPT !.files =
        f.files \cup {[path |-> vaultTemplatePath(plat, t.key), content |-> t.content] :
                         t \in {t \in pk : ~pathExists(f, vaultTemplatePath(plat, t.key))}}]

\* the welcome text with the three values of the configuration in it
welcomeContent(newConfig) ==
    <<"#"," ","W","e","l","c","o","m","e", newConfig.vaultPath, newConfig.vaultName,
      newConfig.editor>>

\* the outer catch: the error is printed and the process exits with 1
initFailed(f, file, why) ==
    [fs |-> f, configFile |-> file, out |-> [status |-> "failed", at |-> why]]

initDone(f, file) ==
    [fs |-> f, configFile |-> file, out |-> [status |-> "initialized", at |-> "none"]]

\* if (!proceed) return
initCancelled(f, file) ==
    [fs |-> f, configFile |-> file, out |-> [status |-> "cancelled", at |-> "none"]]

\* the welcome file, written when it is not there
initWelcome(f, file, newConfig, fault) ==
    IF pathExists(f, WelcomeMd) THEN initDone(f, file)
    ELSE IF fault.at = "welcome" THEN initFailed(f, file, fault.at)
    ELSE initDone(writeFile(f, WelcomeMd, welcomeContent(newConfig)), file)

\* the inner try: the copy of the templates; a throw, with part of the
\* templates copied, is caught and the run goes on
initTemplates(plat, f, pk, file, newConfig, fault) ==
    initWelcome(copy(plat, f, IF fault.at = "copy" THEN fault.part ELSE pk),
                file, newConfig, fault)

\* the folders; a throw at the k-th leaves the ones before it
initStructure(plat, n, f, pk, file, newConfig, fault) ==
    IF fault.at = "folder"
    THEN initFailed(ensureFolders(plat, f, folders(plat, n), fault.k - 1), file, fault.at)
    ELSE initTemplates(plat, ensureFolders(plat, f, folders(plat, n), 6),
                       pk, file, newConfig, fault)

\* saveConfig(newConfig), before the structure is created
initSave(plat, n, f, pk, file, newConfig, fault) ==
    IF fault.at = "save" THEN initFailed(f, file, fault.at)
    ELSE initStructure(plat, n, f, pk, JsonFile(newConfig), newConfig, fault)

\* existingFiles.length > 0
notEmpty(f) == f.dirs # {} \/ f.files # {}

\* initCommand(config) with the answers of the prompts
initCommandWith(plat, n, f, pk, file, newConfig, proceed, fault) ==
    IF ~rootExists(f)
    THEN IF fault.at = "mkdir" THEN initFailed(f, file, fault.at)
         ELSE initSave(plat, n, ensureDir(plat, f, <<>>), pk, file, newConfig, fault)
    ELSE IF fault.at = "readdir" THEN initFailed(f, file, fault.at)
    ELSE IF notEmpty(f) /\ ~proceed THEN initCancelled(f, file)
    ELSE initSave(plat, n, f, pk, file, newConfig, fault)

initCommand(plat, n, f, pk, cfg, file, answers, proceed, fault) ==
    initCommandWith(plat, n, f, pk, file, spread(cfg, answers), proceed, fault)


(***************************************************************************)
(* Runs of `rkv init` on one vault directory: each step is one whole run,  *)
(* index.ts loading the configuration first.                               *)
(***************************************************************************)
\* the answers to the three prompts; the path is that of the one vault
InitAnswers ==
    {[vaultPath |-> "/notes", vaultName |-> "Notes", editor |-> "vim"],
     [vaultPath |-> "/notes", vaultName |-> "Journal", editor |-> "obsidian"]}

Fault(at, k, part) == [at |-> at, k |-> k, part |-> part]

\* no failure, or the call that throws: creating the vault directory,
\* listing it, saving the configuration, creating the first or the fifth
\* folder, copying the templates after none or one of them, writing the
\* welcome file
InitFaults(pk) ==
    {Fault(at, 0, {}) : at \in {"none", "mkdir", "readdir", "save", "welcome"}}
        \cup {Fault("folder", k, {}) : k \in {1, 5}}
        \cup {Fault("copy", 0, part) : part \in {{}} \cup {{t} : t \in pk}}

\* vaults before the first run: none; an empty directory; a directory with
\* one note in it; a vault in use, with entries, a capture file, templates
\* and a welcome file the user has edited
InitVaults(plat, n) ==
    {[root |-> FALSE, dirs |-> {}, files |-> {}],
     [root |-> TRUE, dirs |-> {}, files |-> {}],
     [root |-> TRUE, dirs |-> {}, files |-> {[path |-> Someday, content |-> UserText]}],
     [root |-> TRUE,
      dirs |-> Vault(plat, n, World(TRUE, {Morning}, TRUE, TRUE, MissingFile)).dirs
                  \cup dirsUpTo(plat, Inbox),
      files |-> Vault(plat, n, World(TRUE, {Morning}, TRUE, TRUE, MissingFile)).files
                  \cup {[path |-> captureFile(plat, n), content |-> UserText],
                        [path |-> WelcomeMd, content |-> UserText]}]}

InitInit ==
    /\ type = Morning
    /\ date = At(2024, 1, 15, 9, 7)
    /\ frags = <<>>
    /\ pending = {}
    /\ text = <<>>
    /\ result = [fn |-> "none"]
    /\ launched = <<>>
    /\ calls = <<>>
    /\ steps = 0
    /\ exec = NoExec
    /\ now = At(2024, 1, 15, 9, 7)
    /\ platform \in {"linux", "win32"}
    /\ fs \in InitVaults(platform, now)
    /\ packaged \in {PackagedTemplates, {}}
    /\ configFile \in {MissingFile, CodeEditorFile}
    /\ config = loadConfig(configFile)

\* rkv init
InitCommand ==
    /\ steps < MaxSteps
    /\ \E answers \in InitAnswers, proceed \in BOOLEAN, fault \in InitFaults(packaged) :
          \E r \in {initCommand(platform, now, fs, packaged, loadConfig(configFile),
                                 configFile, answers, proceed, fault)} :
              /\ fs' = r.fs
              /\ configFile' = r.configFile
              /\ result' = [fn |-> "initCommand", args |-> <<answers, proceed, fault>>,
                            out |-> r.out]
    /\ config' = loadConfig(configFile)
    /\ steps' = steps + 1
    /\ UNCHANGED <<type, date, platform, frags, pending, text>>
    /\ UNCHANGED <<now, packaged, launched, calls, exec>>

NextInit == InitCommand

SpecInit == InitInit /\ [][NextInit]_vars


(***************************************************************************)
(* getFilePath for one weekly type and two dates: exec holds the dates and *)
(* the one step makes the two calls.                                       *)
(***************************************************************************)
\* the first and last four days of every year of the model
WeekDates ==
    {dt \in {At(y, m, d, 0, 0) : y \in Years, m \in {1, 12}, d \in (1..4) \cup (28..31)} :
        isValid(dt)}

InitWeeks ==
    /\ date = At(2024, 1, 15, 9, 7)
    /\ frags = <<>>
    /\ pending = {}
    /\ text = <<>>
    /\ result = [fn |-> "none"]
    /\ now = At(2024, 1, 15, 9, 7)
    /\ fs = [root |-> FALSE, dirs |-> {}, files |-> {}]
    /\ packaged = {}
    /\ launched = <<>>
    /\ calls = <<>>
    /\ steps = 0
    /\ configFile = MissingFile
    /\ config = loadConfig(configFile)
    /\ platform = "linux"
    /\ type \in {WeeklyStart, WeeklyEnd}
    /\ exec \in {[pc |-> "called", first |-> d1, second |-> d2] :
                    d1 \in WeekDates, d2 \in WeekDates}

\* getFilePath(type, d1) and getFilePath(type, d2)
WeeklyPaths ==
    /\ exec.pc = "called"
    /\ result' = [fn |-> "getFilePath", args |-> <<type, exec.first, exec.second>>,
                  out |-> [d \in {exec.first, exec.second} |->
                              getFilePath(platform, type, d)]]
    /\ exec' = [exec EXCEPT !.pc = "returned"]
    /\ UNCHANGED <<type, date, platform, frags, pending, text>>
    /\ UNCHANGED <<now, fs, packaged, config, launched, calls, steps, configFile>>

NextWeeks == WeeklyPaths

SpecWeeks == InitWeeks /\ [][NextWeeks]_vars


(***************************************************************************)
(* processTemplate applied twice: the first step renders the template, the *)
(* second renders the output of the first for the same date.               *)
(***************************************************************************)
InitRerender ==
    /\ type = Morning
    /\ platform = "linux"
    /\ pending = {}
    /\ text = <<>>
    /\ result = [fn |-> "none"]
    /\ now = At(2024, 1, 15, 9, 7)
    /\ fs = [root |-> FALSE, dirs |-> {}, files |-> {}]
    /\ packaged = {}
    /\ config = NoConfig
    /\ launched = <<>>
    /\ calls = <<>>
    /\ steps = 0
    /\ configFile = MissingFile
    /\ exec = [pc |-> "called"]
    /\ date = At(2024, 1, 15, 9, 7)
    /\ frags \in RenderTemplates \cup ShuffleTemplates

\* processTemplate(template, { date })
Render ==
    /\ exec.pc = "called"
    /\ result' = [fn |-> "processTemplate", out |-> processTemplate(template, date)]
    /\ exec' = [pc |-> "rendered"]
    /\ UNCHANGED <<type, date, platform, frags, pending, text>>
    /\ UNCHANGED <<now, fs, packaged, config, launched, calls, steps, configFile>>

\* processTemplate(<the output>, { date })
RenderAgain ==
    /\ exec.pc = "rendered"
    /\ text' = processTemplate(result.out.value, date).value
    /\ exec' = [pc |-> "rerendered"]
    /\ UNCHANGED <<type, date, platform, frags, result, pending>>
    /\ UNCHANGED <<now, fs, packaged, config, launched, calls, steps, configFile>>

NextRerender == Render \/ RenderAgain

SpecRerender == InitRerender /\ [][NextRerender]_vars


(***************************************************************************)
(* The type tag on its way through `rkv new`: for a drawn tag and date,    *)
(* one step applies validateEntryType and getFilePath to them, another is  *)
(* one run of newCommand with the tag as its type argument.                *)
(***************************************************************************)
\* a valid date, a date of the last week of a year, a date with month 13
TagDates == {At(2024, 1, 15, 9, 7), At(2024, 12, 30, 0, 0), At(2024, 13, 1, 0, 0)}

InitTypes ==
    /\ frags = <<>>
    /\ pending = {}
    /\ text = <<>>
    /\ result = [fn |-> "none"]
    /\ exec = NoExec
    /\ launched = <<>>
    /\ calls = <<>>
    /\ steps = 0
    /\ now \in NowDates
    /\ \E h \in Hosts :
          /\ platform = h.platform
          /\ fs = Vault(h.platform, now, h.world)
          /\ packaged = (IF h.world.pkg THEN PackagedTemplates ELSE {})
          /\ configFile = h.world.file
    /\ config = loadConfig(configFile)
    /\ type \in TypeTags \cup {<<>>}
    /\ date \in TagDates

\* validateEntryType(type) and getFilePath(type, date)
CheckType ==
    /\ result.fn = "none"
    /\ result' = [fn |-> "validateEntryType", args |-> <<type, date>>,
                  out |-> [valid |-> validateEntryType(type),
                           path |-> getFilePath(platform, type, date)]]
    /\ UNCHANGED <<type, date, platform, frags, pending, text>>
    /\ UNCHANGED sysvars

\* rkv new <type> [--date d]
NewOfType ==
    /\ result.fn = "none"
    /\ \E opt \in NewOptions :
          \E r \in {newCommand(platform, now, fs, packaged, config, type, opt)} :
              /\ fs' = r.fs
              /\ launched' = launched \o r.launch
              /\ result' = [fn |-> "newCommand", args |-> <<type, opt>>, out |-> r.out]
    /\ UNCHANGED <<type, date, platform, frags, pending, text>>
    /\ UNCHANGED <<now, packaged, config, calls, steps, configFile, exec>>

NextTypes == CheckType \/ NewOfType

SpecTypes == InitTypes /\ [][NextTypes]_vars


(***************************************************************************)
(* Reference definitions the properties are stated with: the calendar,     *)
(* zero padding and the path layout written down independently of the      *)
(* formatter.                                                              *)
(***************************************************************************)
RefPow10(k) == CASE k = 0 -> 1 [] k = 1 -> 10 [] k = 2 -> 100 [] k = 3 -> 1000

\* the w low decimal digits of n, most significant first
RefPad(n, w) == [k \in 1..w |-> DigitChars[((n \div RefPow10(w - k)) % 10) + 1]]

RefLeap(y) == (y % 4 = 0 /\ y % 100 # 0) \/ y % 400 = 0

RefMonthLength(y, m) ==
    CASE m \in {1, 3, 5, 7, 8, 10, 12} -> 31
      [] m \in {4, 6, 9, 11} -> 30
      [] m = 2 -> IF RefLeap(y) THEN 29 ELSE 28
      [] OTHER -> 0

RefValidDate(d) == d.month \in 1..12 /\ d.day >= 1 /\ d.day <= RefMonthLength(d.year, d.month)

\* days from Monday 1 January 2018 to 1 January of year y
RECURSIVE RefYearStart(_)
RefYearStart(y) ==
    IF y <= 2018 THEN 0
    ELSE RefYearStart(y - 1) + (IF RefLeap(y - 1) THEN 366 ELSE 365)

RECURSIVE RefMonthStart(_, _)
RefMonthStart(y, m) ==
    IF m <= 1 THEN 0 ELSE RefMonthStart(y, m - 1) + RefMonthLength(y, m - 1)

\* days from Monday 1 January 2018 to the date
RefDays(d) == RefYearStart(d.year) + RefMonthStart(d.year, d.month) + (d.day - 1)

\* the Thursday of the date's Monday-to-Sunday week
RefThursday(d) == RefDays(d) - (RefDays(d) % 7) + 3

\* ISO 8601: a week belongs to the year its Thursday lies in
RefWeekYear(d) ==
    CHOOSE y \in (d.year - 1)..(d.year + 1) :
        RefYearStart(y) <= RefThursday(d) /\ RefThursday(d) < RefYearStart(y + 1)

RefWeekNumber(d) == ((RefThursday(d) - RefYearStart(RefWeekYear(d))) \div 7) + 1

RefDateStr(d) ==
    RefPad(d.year, 4) \o <<"-">> \o RefPad(d.month, 2) \o <<"-">> \o RefPad(d.day, 2)

StartWord == <<"s","t","a","r","t">>
EndWord == <<"e","n","d">>

\* the layout table: segments of the path of a known type
LayoutSegments(ty, d) ==
    CASE ty \in {Morning, Evening} ->
            <<Daily, RefPad(d.year, 4), RefPad(d.month, 2),
              RefDateStr(d) \o <<"-">> \o ty \o DotMd>>
      [] ty \in {WeeklyStart, WeeklyEnd} ->
            <<Weekly, RefPad(d.year, 4),
              RefPad(d.year, 4) \o <<"-", "W">> \o RefPad(RefWeekNumber(d), 2) \o <<"-">>
                  \o (IF ty = WeeklyStart THEN StartWord ELSE EndWord) \o DotMd>>
      [] ty \in {MonthlyStart, MonthlyEnd} ->
            <<Monthly, RefPad(d.year, 4),
              RefPad(d.year, 4) \o <<"-">> \o RefPad(d.month, 2) \o <<"-">>
                  \o (IF ty = MonthlyStart THEN StartWord ELSE EndWord) \o DotMd>>

\* the segments written one after the other with sep between them
LayoutPath(sep, ty, d) ==
    LET segs == LayoutSegments(ty, d)
    IN  Flatten([k \in 1..Len(segs) |->
                    IF k = 1 THEN segs[k] ELSE <<sep>> \o segs[k]])

SixTypes == {Morning, Evening, WeeklyStart, WeeklyEnd, MonthlyStart, MonthlyEnd}

PathCalled == result.fn = "getFilePath"
RenderCalled == result.fn = "processTemplate"

C2_UnknownTypeRejected ==
    (PathCalled /\ type \notin SixTypes /\ RefValidDate(date))
        => result.out = Thrown("Unknown entry type", type)

\* "weekly" alone, whose first segment is a known family, was rejected
C2_Witness ==
    /\ PathCalled
    /\ type = Weekly
    /\ RefValidDate(date)
    /\ result.out.kind = "error"

(***************************************************************************)
(* C3  An invalid date fails getFilePath and processTemplate with the      *)
(* invalid-date error before anything else is looked at: for every type    *)
(* tag, known or not, and for every template text.                         *)
(***************************************************************************)
C3_InvalidDateFailsFirst ==
    ~RefValidDate(date) =>
        /\ PathCalled =>
              /\ result.out.kind = "error"
              /\ result.out.message = "Invalid date provided"
              /\ result.out.detail # ""
        /\ RenderCalled =>
              /\ result.out.kind = "error"
              /\ result.out.message = "Invalid date provided for template processing"
              /\ result.out.detail # ""

\* an unknown tag with 30 February: the date error, not the type error
C3_Witness ==
    /\ PathCalled
    /\ type = BogusType
    /\ date.month = 2 /\ date.day = 30
    /\ result.out.kind = "error"

(***************************************************************************)
(* C4  For every valid date the weekly-start and weekly-end paths are the  *)
(* same up to the end of the final segment, which reads "start.md" in one  *)
(* and "end.md" in the other; likewise monthly-start and monthly-end.      *)
(***************************************************************************)
StartMd == StartWord \o DotMd
EndMd == EndWord \o DotMd

\* p without its last k characters
DropLast(p, k) == SubSeq(p, 1, Len(p) - k)

\* no separator in the last k characters of p: they lie in the final segment
InFinalSegment(p, k) ==
    \A i \in (Len(p) - k + 1)..Len(p) : p[i] \notin {"/", "\\"}

C4_StartEndDifferInSuffixOnly ==
    (PathCalled /\ RefValidDate(date) /\ type \in {WeeklyStart, MonthlyStart})
        => LET other == IF type = WeeklyStart THEN WeeklyEnd ELSE MonthlyEnd
               s == result.out
               e == getFilePath(platform, other, date)
           IN  /\ s.kind = "ok" /\ e.kind = "ok"
               /\ EndsWith(s.value, StartMd) /\ EndsWith(e.value, EndMd)
               /\ DropLast(s.value, Len(StartMd)) = DropLast(e.value, Len(EndMd))
               /\ InFinalSegment(s.value, Len(StartMd))
               /\ InFinalSegment(e.value, Len(EndMd))

C4_Witness ==
    /\ PathCalled
    /\ type = MonthlyStart
    /\ date = At(2024, 12, 1, 0, 0)
    /\ result.out.kind = "ok"


(***************************************************************************)
(* Reference definitions of the substitution passes: which characters of a *)
(* pass's input are replaced is read off the input's match positions,      *)
(* instead of a scan.                                                      *)
(***************************************************************************)
RefOccurs(t, tok) == {i \in 1..Len(t) : MatchAt(t, tok, i)}

\* every occurrence of a {{name}} marker replaced by val, the rest kept; two
\* occurrences of such a marker never overlap
RefLiteralReplace(t, tok, val) ==
    LET occ == RefOccurs(t, tok)
    IN  Flatten([k \in 1..Len(t) |->
            IF k \in occ THEN val
            ELSE IF \E i \in occ : i < k /\ k < i + Len(tok) THEN <<>>
            ELSE <<t[k]>>])

\* the position of the first "}" of t after the {{date: opener at i, or 0
RefCloseAfter(t, i) ==
    LET from == i + Len(FormatOpen)
        at == {j \in from..Len(t) : t[j] = "}"}
    IN  IF at = {} THEN 0 ELSE CHOOSE j \in at : \A k \in at : j <= k

\* <<i, e>>: t[i..e] reads {{date:FORMAT}} with FORMAT non-empty and free of "}"
RefFormatMatches(t) ==
    {<<i, RefCloseAfter(t, i) + 1>> :
        i \in {i \in RefOccurs(t, FormatOpen) :
                  /\ RefCloseAfter(t, i) > i + Len(FormatOpen)
                  /\ MatchAt(t, Close, RefCloseAfter(t, i))}}

\* the matches a left-to-right replace-all takes: those not inside an earlier one
RefFormatTaken(t) ==
    LET all == RefFormatMatches(t)
    IN  {m \in all : ~\E n \in all : n[1] < m[1] /\ m[1] <= n[2]}

RefFormatOf(t, m) == SubSeq(t, m[1] + Len(FormatOpen), m[2] - 2)

\* every taken {{date:FORMAT}} replaced by the date in that format
RefFormatReplace(t, d) ==
    LET taken == RefFormatTaken(t)
    IN  Flatten([k \in 1..Len(t) |->
            IF \E m \in taken : m[1] = k
            THEN toFormat(d, RefFormatOf(t, CHOOSE m \in taken : m[1] = k))
            ELSE IF \E m \in taken : m[1] < k /\ k <= m[2] THEN <<>>
            ELSE <<t[k]>>])

RECURSIVE RefShortcutsFrom(_, _, _)
RefShortcutsFrom(t, d, k) ==
    IF t = <<>> \/ k > Len(ShortcutNames) THEN t
    ELSE RefShortcutsFrom(RefLiteralReplace(t, shortcutToken(k), shortcutValue(k, d)),
                          d, k + 1)

RefAfterBare(t, d) == RefLiteralReplace(t, BareToken, RefDateStr(d))

\* every format string the {{date:FORMAT}} pass meets lies in the modelled
\* part of luxon's token table
FormatsInModel ==
    (RenderCalled /\ RefValidDate(date)) =>
        \A m \in RefFormatTaken(RefAfterBare(template, date)) :
            FormatInModel(RefFormatOf(RefAfterBare(template, date), m))

\* the text has no {{date}}, no {{date:FORMAT}} and none of the twelve shortcuts
NoRecognizedToken(t) ==
    /\ RefOccurs(t, BareToken) = {}
    /\ RefFormatMatches(t) = {}
    /\ \A k \in Shortcuts : RefOccurs(t, shortcutToken(k)) = {}

RenderedOk == RenderCalled /\ RefValidDate(date) /\ result.out.kind = "ok"

(***************************************************************************)
(* C5  A {{date:FORMAT}} whose format string is not a valid formatting     *)
(* pattern is left verbatim in the output, with a warning, and the other   *)
(* substitutions are still made. Stated for templates written from         *)
(* {{date:real}}, {{date}}, {{year}} and {{foo}}. The code does not do     *)
(* this: toFormat never throws, so the catch branch is never taken.        *)
(***************************************************************************)
C5_Claimed(f, d) ==
    CASE f = FBare -> RefDateStr(d)
      [] f = FYear -> RefPad(d.year, 4)
      [] OTHER -> f

C5_InvalidFormatLeftVerbatim ==
    (/\ RenderCalled /\ RefValidDate(date)
     /\ \A k \in 1..Len(frags) : frags[k] \in {FFmtReal, FBare, FYear, FFoo}
     /\ \E k \in 1..Len(frags) : frags[k] = FFmtReal)
        => /\ result.out.kind = "ok"
           /\ result.out.value = Flatten([k \in 1..Len(frags) |-> C5_Claimed(frags[k], date)])
           /\ result.out.warnings # <<>>

(***************************************************************************)
(* C6  processTemplate is the bare {{date}} pass, then the {{date:FORMAT}} *)
(* pass, then the twelve shortcut passes, each a replace-all of all the    *)
(* matches in the text the pass before it left; so text a pass writes is   *)
(* never matched by that pass or an earlier one, and is substituted by a   *)
(* later pass exactly when it reads as a marker of that pass.              *)
(***************************************************************************)
C6_PassesInOrder ==
    (RenderCalled /\ RefValidDate(date)) =>
        /\ result.out.kind = "ok"
        /\ result.out.value =
              RefShortcutsFrom(RefFormatReplace(RefAfterBare(template, date), date), date, 1)
        \* {{date:{{date}}}}: the bare marker is replaced first, and its text is
        \* the format string of the second pass
        /\ frags = <<FormatOpen, FBare, Close>> => result.out.value = RefDateStr(date)
        \* {{date:'{{'}}date}} leaves {{date}}: the first pass is not run again
        /\ frags = <<FFmtQuotedOpen, FDateClose>> => result.out.value = BareToken
        \* {{date:'{{date:'}}year}} leaves {{date:year}}: no second scan of a pass
        /\ frags = <<FFmtQuotedFormatOpen, FYearClose>>
              => result.out.value = FormatOpen \o FYearClose
        \* {{date:'{{'}}year}} reads {{year}} after the second pass: the later
        \* pass substitutes it
        /\ frags = <<FFmtQuotedOpen, FYearClose>> => result.out.value = RefPad(date.year, 4)

C6_Witness ==
    /\ RenderedOk
    /\ frags = <<FFmtQuotedOpen, FYearClose>>
    /\ result.out.value = <<"2", "0", "2", "4">>


(***************************************************************************)
(* C7  For every valid date, a template without recognized tokens is       *)
(* returned unchanged; and a token shape outside the grammar ({{foo}}, a   *)
(* {{date: that no {{date:FORMAT}} of the template starts at) passes       *)
(* through as ordinary text while tokens elsewhere are substituted: the    *)
(* output is the rendering of the text before it, the shape itself, and    *)
(* the rendering of the text after it.                                     *)
(* As stated this fails: in {{date:{{date}}{{foo}} the first pass leaves   *)
(* {{date:2024-01-15{{foo}}, which the second pass reads as one            *)
(* {{date:FORMAT}} that ends with the braces of {{foo}}.                   *)
(***************************************************************************)
UnknownShapes == {FFoo, FormatOpen}

Before(p) == Flatten(SubSeq(frags, 1, p - 1))
After(p) == Flatten(SubSeq(frags, p + 1, Len(frags)))

\* some character of t[lo..hi] lies in an occurrence of the marker tok
RefInMarker(t, tok, lo, hi) ==
    \E i \in RefOccurs(t, tok) : i <= hi /\ lo <= i + Len(tok) - 1

\* some character of t[lo..hi] lies in a {{date:FORMAT}} of t
RefInFormat(t, lo, hi) ==
    \E m \in RefFormatMatches(t) : m[1] <= hi /\ lo <= m[2]

\* the shape at fragment p lies outside every recognized token of the template
OutsideGrammar(p) ==
    LET lo == Len(Before(p)) + 1
        hi == Len(Before(p)) + Len(frags[p])
    IN  /\ ~RefInMarker(template, BareToken, lo, hi)
        /\ \A k \in Shortcuts : ~RefInMarker(template, shortcutToken(k), lo, hi)
        /\ ~RefInFormat(template, lo, hi)

\* the shape at fragment p passed through, the text around it rendered
PassedThrough(p) ==
    result.out.value =
        processTemplate(Before(p), date).value \o frags[p]
            \o processTemplate(After(p), date).value

C7_UnknownShapesPassThrough ==
    RenderedOk =>
        /\ NoRecognizedToken(template) => result.out.value = template
        /\ \A p \in 1..Len(frags) :
              (frags[p] \in UnknownShapes /\ OutsideGrammar(p)) => PassedThrough(p)

(***************************************************************************)
(* C7 (amended)  For every valid date, a template without recognized       *)
(* tokens is returned unchanged; and a token shape outside the grammar     *)
(* passes through as ordinary text while tokens elsewhere are substituted, *)
(* provided it does not lie in a {{date:FORMAT}} of the text that the bare *)
(* {{date}} pass leaves.                                                   *)
(***************************************************************************)
\* the shape at fragment p lies in no {{date:FORMAT}} after the bare pass
OutsideFormatAfterBare(p) ==
    LET lo == Len(RefAfterBare(Before(p), date)) + 1
        hi == Len(RefAfterBare(Before(p), date)) + Len(frags[p])
    IN  ~RefInFormat(RefAfterBare(template, date), lo, hi)

C7_ShapesOutsideFormatsPassThrough ==
    RenderedOk =>
        /\ NoRecognizedToken(template)
              => (result.out.value = template /\ result.out.warnings = <<>>)
        /\ \A p \in 1..Len(frags) :
              (frags[p] \in UnknownShapes /\ OutsideFormatAfterBare(p)) => PassedThrough(p)

\* {{foo}}, an unclosed {{date: and {{year}}: the first two came out as written
C7_Witness ==
    /\ RenderedOk
    /\ frags = <<FFoo, FYear, FormatOpen>>
    /\ result.out.value = FFoo \o <<"2", "0", "2", "4">> \o FormatOpen

(***************************************************************************)
(* C8  For every valid date processTemplate replaces every occurrence of   *)
(* {{date}} by the date as zero-padded YYYY-MM-DD. Stated for templates    *)
(* whose only recognized tokens are bare markers: the output is the        *)
(* template with each marker replaced and everything else kept, so it is   *)
(* two characters longer per marker and holds no marker any more.          *)
(***************************************************************************)
OnlyBareMarkers(t) ==
    /\ RefOccurs(t, FormatOpen) = {}
    /\ \A k \in Shortcuts : RefOccurs(t, shortcutToken(k)) = {}

C8_EveryBareDateReplaced ==
    (RenderedOk /\ OnlyBareMarkers(template)) =>
        /\ result.out.value = RefAfterBare(template, date)
        /\ Len(result.out.value) =
              Len(template) + 2 * Cardinality(RefOccurs(template, BareToken))
        /\ RefOccurs(result.out.value, BareToken) = {}
        /\ (frags = <<FBare>> /\ date = At(2024, 1, 15, 9, 7))
              => result.out.value = <<"2","0","2","4","-","0","1","-","1","5">>

\* two markers around {{foo}}, both replaced
C8_Witness ==
    /\ RenderedOk
    /\ frags = <<FBare, FFoo, FBare>>
    /\ result.out.value =
          <<"2","0","2","4","-","0","1","-","1","5">> \o FFoo
              \o <<"2","0","2","4","-","0","1","-","1","5">>


(***************************************************************************)
(* C9  For every valid date {{weekNumber}} renders as the two-digit ISO    *)
(* 8601 week number of the date, {{weekYear}} as its ISO week-year,        *)
(* {{monthName}} as the full month name and {{year}} as the four-digit     *)
(* calendar year, at the turn of the year too. Stated for every day of the *)
(* years of the model and the templates                                    *)
(* "{{weekNumber}} {{monthName}} {{year}}" and                             *)
(* "{{weekYear}} {{weekNumber}} {{year}}".                                 *)
(***************************************************************************)
RefMonthNames ==
    << <<"J","a","n","u","a","r","y">>, <<"F","e","b","r","u","a","r","y">>,
       <<"M","a","r","c","h">>, <<"A","p","r","i","l">>, <<"M","a","y">>,
       <<"J","u","n","e">>, <<"J","u","l","y">>, <<"A","u","g","u","s","t">>,
       <<"S","e","p","t","e","m","b","e","r">>, <<"O","c","t","o","b","e","r">>,
       <<"N","o","v","e","m","b","e","r">>, <<"D","e","c","e","m","b","e","r">> >>

WeekMonthYear == <<FWeekNumber, FSpace, FMonthName, FSpace, FYear>>
WeekYearWeekYear == <<FWeekYear, FSpace, FWeekNumber, FSpace, FYear>>

C9_IsoWeekAndCalendarYear ==
    (RenderCalled /\ RefValidDate(date) /\ frags \in CalendarTemplates) =>
        /\ result.out.kind = "ok"
        /\ frags = WeekMonthYear =>
              result.out.value =
                  RefPad(RefWeekNumber(date), 2) \o FSpace \o RefMonthNames[date.month]
                      \o FSpace \o RefPad(date.year, 4)
        /\ frags = WeekYearWeekYear =>
              result.out.value =
                  RefPad(RefWeekYear(date), 4) \o FSpace \o RefPad(RefWeekNumber(date), 2)
                      \o FSpace \o RefPad(date.year, 4)
        \* 15 January 2024
        /\ (frags = WeekMonthYear /\ date = At(2024, 1, 15, 0, 0)) =>
              result.out.value =
                  <<"0","3"," ","J","a","n","u","a","r","y"," ","2","0","2","4">>
        \* a 31 December in week 1 of the next year, a 1 January in the last
        \* week of the year before
        /\ (frags = WeekYearWeekYear /\ date = At(2024, 12, 31, 0, 0)) =>
              result.out.value = <<"2","0","2","5"," ","0","1"," ","2","0","2","4">>
        /\ (frags = WeekYearWeekYear /\ date = At(2023, 1, 1, 0, 0)) =>
              result.out.value = <<"2","0","2","2"," ","5","2"," ","2","0","2","3">>

\* Tuesday 31 December 2024 rendered: week 01 of 2025, year 2024
C9_Witness ==
    /\ RenderedOk
    /\ frags = WeekYearWeekYear
    /\ date = At(2024, 12, 31, 0, 0)
    /\ result.out.value = <<"2","0","2","5"," ","0","1"," ","2","0","2","4">>

(***************************************************************************)
(* C10  The twelve shortcut substitutions are independent: for every       *)
(* template and valid date, once all twelve have been applied, in whatever *)
(* order, the text is the output of processTemplate, which applies them in *)
(* the order of the source. Stated for templates without {{date}} and      *)
(* {{date:FORMAT}}, written from {{year}}, {{monthName}} and               *)
(* {{ye{{dateISO}}ar}}.                                                    *)
(***************************************************************************)
C10_ShortcutsInAnyOrder ==
    pending = {} =>
        /\ processTemplate(template, date).kind = "ok"
        /\ text = processTemplate(template, date).value

\* all twelve applied, {{year}} before {{dateISO}}, to a template with both
C10_Witness ==
    /\ pending = {}
    /\ frags = <<FNestedISO, FYear>>
    /\ text = <<"{","{","y","e">> \o toISO(ShuffleDate) \o <<"a","r","}","}">>
                  \o <<"2","0","2","4">>

(***************************************************************************)
(* Properties of the commands.                                             *)
(***************************************************************************)
\* the step is a call of getFilePath or of processTemplate
CoreCallStep == Len(calls') = Len(calls) + 1

Ran(fn) == result.fn = fn

OpenedWith(args) == Ran("openCommand") /\ result.args[1] \in args

\* the file <YYYY-MM-DD>-captures.md of the directory inbox, for the day of
\* the clock, written from the calendar
RefCaptureFile == Inbox \o <<pathSep(platform)>> \o RefDateStr(now) \o CapturesMd

\* C12: the captures of a day live in <YYYY-MM-DD>-captures.md of the
\* directory inbox of the vault, the date being that of the clock: the file
\* `rkv log` appends to is the one candidate `rkv open captures` and
\* `rkv open inbox` look up that day, and once it is written they open it.
C12_CapturesFileShared ==
    /\ Ran("logCommand") =>
          /\ result.out.path = RefCaptureFile
          /\ \E e \in fs.files : e.path = RefCaptureFile
    /\ OpenedWith({Captures, Inbox}) =>
          /\ result.out.candidates = <<RefCaptureFile>>
          /\ (\E e \in fs.files : e.path = RefCaptureFile)
                => result.out.status = "opened" /\ result.out.path = RefCaptureFile

\* `rkv open inbox` opening the file an earlier `rkv log` wrote
C12_Witness ==
    /\ OpenedWith({Inbox})
    /\ result.out.status = "opened"
    /\ launched # <<>>
    /\ launched[Len(launched)].file = RefCaptureFile


\* the day before the clock's, from the calendar
RefYesterday ==
    IF now.day > 1 THEN [now EXCEPT !.day = now.day - 1]
    ELSE IF now.month > 1
    THEN [now EXCEPT !.month = now.month - 1,
                     !.day = RefMonthLength(now.year, now.month - 1)]
    ELSE [now EXCEPT !.year = now.year - 1, !.month = 12, !.day = 31]

\* the day `rkv open` was asked for: no argument, today, yesterday, or the
\* ISO date 2024-12-31
DayArgs == {<<>>, Today, Yesterday, IsoArg}

AskedDay ==
    IF result.args[1] = Yesterday THEN RefYesterday
    ELSE IF result.args[1] = IsoArg THEN At(2024, 12, 31, 0, 0)
    ELSE now

EveningOfAskedDay == LayoutPath(pathSep(platform), Evening, AskedDay)
MorningOfAskedDay == LayoutPath(pathSep(platform), Morning, AskedDay)

InVault(p) == fs.root /\ \E e \in fs.files : e.path = p

\* the editor launch the last command made, if it made one
LastLaunch == launched[Len(launched)]

\* C13: for no argument, `today`, `yesterday` and an ISO date, `rkv open`
\* tries the evening entry of the day and then its morning entry and opens
\* the first that exists: the evening entry whenever it exists, the morning
\* entry only when the evening entry does not, and nothing when neither does.
C13_EveningBeforeMorning ==
    OpenedWith(DayArgs) =>
        /\ result.out.candidates = <<EveningOfAskedDay, MorningOfAskedDay>>
        /\ InVault(EveningOfAskedDay) =>
              /\ result.out.status = "opened"
              /\ result.out.path = EveningOfAskedDay
              /\ LastLaunch.file = EveningOfAskedDay
        /\ ~InVault(EveningOfAskedDay) /\ InVault(MorningOfAskedDay) =>
              /\ result.out.status = "opened"
              /\ result.out.path = MorningOfAskedDay
              /\ LastLaunch.file = MorningOfAskedDay
        /\ ~InVault(EveningOfAskedDay) /\ ~InVault(MorningOfAskedDay) =>
              result.out.status = "not-found"

\* yesterday's evening and morning entries both exist: the evening one opens
C13_Witness ==
    /\ OpenedWith({Yesterday})
    /\ InVault(EveningOfAskedDay)
    /\ InVault(MorningOfAskedDay)
    /\ result.out.path = EveningOfAskedDay


\* where `rkv new weekly-start`, given no date option and run now against
\* this vault, has or puts its entry
WeeklyEntryOfNew ==
    newCommand(platform, now, fs, PackagedTemplates, config, WeeklyStart,
               Options(<<>>, FALSE, FALSE)).out.path

\* C14: the path `rkv open week` looks up is the path at which
\* `rkv new weekly-start`, given no date option and run on a day of the same
\* ISO week, creates its entry; here the day of the lookup itself.
C14_OpenWeekFindsNewWeeklyStart ==
    OpenedWith({Week}) /\ fs.root =>
        result.out.candidates = <<WeeklyEntryOfNew>>


\* the template key of the entry type `rkv new` was run for
KeyOfRun ==
    IF result.args[1] = WeeklyStart THEN WeeklyStart
    ELSE IF now.hour < 12 THEN <<"d","a","i","l","y","-","m","o","r","n","i","n","g">>
    ELSE <<"d","a","i","l","y","-","e","v","e","n","i","n","g">>

VaultTemplateOfRun == TemplatesDir \o <<pathSep(platform)>> \o KeyOfRun \o DotMd

PackagedHasKeyOfRun == \E t \in packaged : t.key = KeyOfRun

\* the first two characters of the entry the run wrote
EntryHead ==
    SubSeq((CHOOSE e \in fs.files : e.path = result.out.path).content, 1, 2)

\* C15: `rkv new` takes the template from .templates/<key>.md of the vault
\* whenever that file exists, and from the packaged templates/<key>.md only
\* when it does not; with neither it creates nothing.
C15_VaultTemplateFirst ==
    Ran("newCommand") /\ result.out.status \in {"created", "no-template"} =>
        IF InVault(VaultTemplateOfRun)
        THEN /\ result.out.status = "created"
             /\ result.out.from = "vault"
             /\ EntryHead = <<"V", " ">>
        ELSE IF PackagedHasKeyOfRun
        THEN /\ result.out.status = "created"
             /\ result.out.from = "packaged"
             /\ EntryHead = <<"P", " ">>
        ELSE result.out.status = "no-template"

\* both templates exist and the entry is written from the vault's
C15_Witness ==
    /\ Ran("newCommand")
    /\ result.out.status = "created"
    /\ InVault(VaultTemplateOfRun)
    /\ PackagedHasKeyOfRun
    /\ EntryHead = <<"V", " ">>


\* the step is a run of `rkv new`
NewStep == steps' = steps + 1 /\ result'.fn = "newCommand"

\* a run of `rkv new` keeps every file of the vault with its content, and a
\* run that finds its entry existing reads no template and writes nothing
ExistingEntryKept ==
    NewStep =>
        /\ fs.files \subseteq fs'.files
        /\ result'.out.status = "exists" => fs' = fs /\ result'.out.from = "none"

\* a run that finds its entry existing launches the editor on it
ExistingEntryOpened ==
    NewStep /\ result'.out.status = "exists" =>
        /\ Len(launched') = Len(launched) + 1
        /\ launched'[Len(launched')].file = result'.out.path

\* C18: `rkv new` never overwrites an existing entry: when the file at the
\* resolved path exists it reads no template and writes nothing, so no run
\* changes the content of an entry once created; the existing entry is then
\* opened in the editor.
C18_ExistingEntryKeptAndOpened == [][ExistingEntryKept /\ ExistingEntryOpened]_vars

\* the vault alone: no run of `rkv new` changes or removes a file
EntryNeverOverwritten == [][ExistingEntryKept]_vars

\* the entry type, the date option and the entry of the run of the step
TypeOfStep ==
    IF result'.args[1] # <<>> THEN result'.args[1]
    ELSE IF now.hour < 12 THEN Morning ELSE Evening

DayOfStep ==
    IF result'.args[2].date = IsoArg THEN At(2024, 12, 31, 0, 0) ELSE now

EntryOfStep == LayoutPath(pathSep(platform), TypeOfStep, DayOfStep)

KeyOfStep ==
    IF TypeOfStep = WeeklyStart THEN WeeklyStart ELSE <<"d","a","i","l","y","-">> \o TypeOfStep

\* the four situations in which a run of `rkv new` is to stop
NoVault == ~fs.root

BadType == TypeOfStep \notin SixTypes

BadDate == result'.args[2].date # <<>> /\ ~RefValidDate(fromISO(result'.args[2].date))

NoTemplate ==
    /\ ~InVault(TemplatesDir \o <<pathSep(platform)>> \o KeyOfStep \o DotMd)
    /\ ~\E t \in packaged : t.key = KeyOfStep

NothingDone == fs' = fs /\ launched' = launched

OpenStep == steps' = steps + 1 /\ result'.fn = "openCommand"

\* the argument of the run is a keyword or a valid ISO date
KnownArg ==
    \/ result'.args[1] \in {<<>>, Today, Yesterday, Week, Captures, Inbox}
    \/ RefValidDate(fromISO(result'.args[1]))

\* C20: `rkv open` never creates or modifies a file of the vault, and it
\* launches the editor only on a candidate path that exists in the vault:
\* with no existing candidate, or an argument that is neither a keyword nor
\* a valid ISO date, nothing is launched.
C20_OpenReadsOnly ==
    [][OpenStep =>
          /\ fs' = fs
          /\ \/ launched' = launched
             \/ /\ Len(launched') = Len(launched) + 1
                /\ \E k \in 1..Len(result'.out.candidates) :
                      /\ result'.out.candidates[k] = launched'[Len(launched')].file
                      /\ InVault(result'.out.candidates[k])
          /\ ~KnownArg => launched' = launched
          /\ (\A k \in 1..Len(result'.out.candidates) :
                 ~InVault(result'.out.candidates[k])) => launched' = launched]_vars

\* a run on a day without entries, which launched nothing
C20_Witness ==
    /\ OpenedWith({Yesterday})
    /\ result.out.status = "not-found"
    /\ Len(result.out.candidates) = 2
    /\ launched = <<>>
    /\ fs.root

(***************************************************************************)
(* Properties of the configuration.                                        *)
(***************************************************************************)
ConfigFields == {"vaultPath", "vaultName", "editor", "defaultExtension"}

\* C16: loadConfig never fails. With the file missing or unparsable it
\* returns the defaults, the same in both cases; with a readable file every
\* field the file holds overrides its default and every field it omits takes
\* the default.
C16_LoadConfigTotal ==
    [][config' # config =>
          /\ ConfigFields \subseteq DOMAIN config'
          /\ configFile.state \in {"missing", "corrupt"} => config' = DEFAULT_CONFIG
          /\ configFile.state = "json" =>
                \A f \in ConfigFields :
                    config'[f] = IF f \in DOMAIN configFile.value
                                 THEN configFile.value[f]
                                 ELSE DEFAULT_CONFIG[f]]_vars

\* a file that sets the editor and omits the vault name has been loaded
C16_Witness ==
    /\ configFile.state = "json"
    /\ "editor" \in DOMAIN configFile.value
    /\ "vaultName" \notin DOMAIN configFile.value
    /\ config # NoConfig
    /\ config.editor = FileValues.editor
    /\ config.vaultName = DEFAULT_CONFIG.vaultName


(***************************************************************************)
(* Properties of the editor launch.                                        *)
(***************************************************************************)
Returned == exec.pc = "returned"

Failed == Returned /\ exec.error # [code |-> "none", signal |-> "none"]

ReportOf(e) == \E i \in 1..Len(exec.console) : exec.console[i] = errorReport(e)

\* C17: one call of openInObsidian runs the launch command at most once and
\* never again after the run failed or timed out; a failure is reported on
\* the console, and the report of a timeout differs from the report of a
\* command that is not found.
C17_LaunchOnceAndReported ==
    /\ [](exec.pc \notin {"idle", "called"} => exec.runs <= 1 /\ Len(launched) <= 1)
    /\ [][exec.pc = "returned" => exec' = exec /\ launched' = launched]_vars
    /\ [](Failed => /\ exec.runs = 1
                    /\ ReportOf(exec.error)
                    /\ exec.error.signal = "SIGTERM" =>
                          /\ ~ReportOf([code |-> "ENOENT", signal |-> "none"])
                          /\ errorReport(exec.error)
                                # errorReport([code |-> "ENOENT", signal |-> "none"]))

\* a launch that timed out has been reported and the call has returned
C17_Witness ==
    /\ Failed
    /\ exec.error.signal = "SIGTERM"
    /\ exec.runs = 1
    /\ ReportOf(exec.error)


(***************************************************************************)
(* Properties of `rkv log`, one run after the other.                       *)
(***************************************************************************)
\* the header and the line of a capture, written from the calendar
RefCaptureHeader(n) ==
    <<"#"," ","C","a","p","t","u","r","e","s"," ","-"," ">> \o RefDateStr(n)
        \o <<Newline, Newline>>

RefCaptureLine(n, message) ==
    <<"-"," ">> \o RefPad(n.hour, 2) \o <<":">> \o RefPad(n.minute, 2)
        \o <<" ","-"," ">> \o message \o <<Newline>>

\* what the file p of the vault f holds, nothing when it is not there
ContentOf(f, p) == IF \E e \in f.files : e.path = p THEN readFile(f, p) ELSE <<>>

LineBreaks(t) == Cardinality({i \in 1..Len(t) : t[i] = Newline})

\* a step that is one run of logCommand
LogStep == steps' = steps + 1 /\ result'.fn = "logCommand"

\* the lines logged to p so far, in the order of the runs
LinesLoggedTo(p) ==
    Flatten([i \in 1..Len(calls) |->
                IF calls[i].path = p
                THEN RefCaptureLine(calls[i].clock, calls[i].message)
                ELSE <<>>])

\* the run appends the text "- <HH:MM> - <message>" and a line break to the
\* capture file of the day, after the header when the file was not there,
\* and touches no other file
AppendsCapture ==
    LET p == result'.out.path
        message == result'.args[1]
        there == \E e \in fs.files : e.path = p
        base == IF there THEN readFile(fs, p) ELSE RefCaptureHeader(now)
    IN  /\ p = RefCaptureFile
        /\ readFile(fs', p) = base \o RefCaptureLine(now, message)
        /\ StartsWith(readFile(fs', p), ContentOf(fs, p))
        /\ {e \in fs'.files : e.path # p} = {e \in fs.files : e.path # p}

\* every capture logged so far is in its file, in the order of the runs
CapturesKept ==
    \A i \in 1..Len(calls) :
        EndsWith(ContentOf(fs, calls[i].path), LinesLoggedTo(calls[i].path))

RunsOn(p) == {i \in 1..Len(calls) : calls[i].path = p}

\* the file p was made by one of the runs
MadeByLog(p) == \E i \in RunsOn(p) : calls[i].made

\* C29: after n runs of logCommand on a capture file that logCommand itself
\* made, the run reports n captures, whatever the messages are.
C29_CountIsRuns ==
    Ran("logCommand") /\ MadeByLog(result.out.path)
        => result.out.count = Cardinality(RunsOn(result.out.path))

\* as long as no message holds a line break followed by "- " the count is
\* the number of runs
C29_CountOfPlainMessages ==
    /\ Ran("logCommand")
    /\ MadeByLog(result.out.path)
    /\ \A i \in RunsOn(result.out.path) :
           \A k \in 1..Len(calls[i].message) : ~MatchAt(calls[i].message, <<Newline, "-", " ">>, k)
    => result.out.count = Cardinality(RunsOn(result.out.path))


(***************************************************************************)
(* Properties of runs of `rkv log` that overlap.                           *)
(***************************************************************************)
\* s occurs somewhere in t
Occurs(t, s) == \E i \in 1..Len(t) : MatchAt(t, s, i)

AllDone == \A p \in Procs : exec[p].pc = "done"

\* C28: once overlapping runs of logCommand on one day have all completed,
\* the capture file holds the line of every one of them, whatever the order
\* of their steps was.
C28_NoCaptureLost ==
    AllDone =>
        \A p \in Procs :
            Occurs(ContentOf(fs, RefCaptureFile), RefCaptureLine(now, messageOf(p)))

\* when the capture file is there before the runs start, no run writes the
\* header and every line is kept
C28_KeptInExistingFile ==
    AllDone /\ (\A p \in Procs : exec[p].exists) =>
        \A p \in Procs :
            Occurs(ContentOf(fs, RefCaptureFile), RefCaptureLine(now, messageOf(p)))


(***************************************************************************)
(* Properties of the target date of `rkv new`.                             *)
(***************************************************************************)
\* the text is YYYY-MM-DD and names a day of the calendar in the years of the
\* model
RefIsoDay(s) ==
    /\ Len(s) = 10
    /\ \E y \in Years, m \in 1..12, d \in 1..31 :
          /\ RefValidDate([year |-> y, month |-> m, day |-> d])
          /\ s = RefDateStr([year |-> y, month |-> m, day |-> d])

\* the day dt is k days after the day of the clock, at the clock's time
DaysFromNow(dt, k) ==
    /\ RefValidDate(dt)
    /\ RefDays(dt) = RefDays(now) + k
    /\ dt.hour = now.hour /\ dt.minute = now.minute

\* C22: the target date of `rkv new` is the day --date names when that is a
\* valid date, whatever --tomorrow and --yesterday say; without --date it is
\* the day after the clock's with --tomorrow, whatever --yesterday says;
\* with --yesterday alone the day before; and the clock's date with no
\* option. Tomorrow and yesterday are exactly one day from the clock's date.
C22_TargetDatePrecedence ==
    Ran("parseTargetDate") =>
        LET opt == result.args[1]
            out == result.out
        IN  /\ RefIsoDay(opt.date) =>
                  /\ out.kind = "ok"
                  /\ RefDateStr(out.value) = opt.date
                  /\ out.value.hour = 0 /\ out.value.minute = 0
            /\ opt.date = <<>> /\ opt.tomorrow =>
                  out.kind = "ok" /\ DaysFromNow(out.value, 1)
            /\ opt.date = <<>> /\ ~opt.tomorrow /\ opt.yesterday =>
                  out.kind = "ok" /\ DaysFromNow(out.value, -1)
            /\ opt.date = <<>> /\ ~opt.tomorrow /\ ~opt.yesterday =>
                  out.kind = "ok" /\ out.value = now

\* --tomorrow and --yesterday together on the last day of a year
C22_Witness ==
    /\ Ran("parseTargetDate")
    /\ result.args[1] = Options(<<>>, TRUE, TRUE)
    /\ now.month = 12 /\ now.day = 31
    /\ result.out.value.year = now.year + 1


(***************************************************************************)
(* Properties of `rkv init`.                                               *)
(***************************************************************************)
\* a step that is one run of initCommand
InitStep == steps' = steps + 1 /\ result'.fn = "initCommand"

\* the configuration the run builds from the loaded one and the answers
NewConfigOfStep ==
    [f \in DOMAIN loadConfig(configFile) |->
        IF f \in DOMAIN result'.args[1] THEN result'.args[1][f]
        ELSE loadConfig(configFile)[f]]

\* C23 as stated: a run of initCommand that does not complete, because the
\* user declines or because a call fails, leaves the configuration file as
\* it was.
C23_ConfigOnlyOnSuccess ==
    [][InitStep /\ result'.out.status # "initialized" => configFile' = configFile]_vars

\* what the runs do: the configuration file is left as it was when the user
\* declines and when the run fails before the configuration is saved
\* (creating or listing the vault directory, or the save itself); a run
\* that fails later, at a folder or at the welcome file, has saved the new
\* configuration already, as a run that completes has.
C23_ConfigSavedBeforeStructure ==
    [][InitStep =>
        IF \/ result'.out.status = "cancelled"
           \/ result'.out.status = "failed" /\ result'.out.at \in {"mkdir", "readdir", "save"}
        THEN configFile' = configFile
        ELSE configFile' = JsonFile(NewConfigOfStep)]_vars

\* C24: a run of initCommand keeps every file the vault holds, templates of
\* .templates, the welcome file, entries and capture files alike, with its
\* content, and every directory; and a run in which the copy of the
\* templates fails is not aborted by that: it goes on to the welcome file
\* and completes.
C24_InitKeepsUserContent ==
    [][InitStep =>
        /\ fs.files \subseteq fs'.files
        /\ fs.dirs \subseteq fs'.dirs
        /\ result'.args[3].at = "copy" /\ result'.out.status # "cancelled" =>
              /\ result'.out.status = "initialized"
              /\ pathExists(fs', WelcomeMd)]_vars

\* a run on the vault in use, with the copy of the templates failing after one
\* template: the user's templates, welcome file, entry and captures are as
\* they were
C24_Witness ==
    /\ Ran("initCommand")
    /\ result.out.status = "initialized"
    /\ result.args[3].at = "copy" /\ result.args[3].part # {}
    /\ readFile(fs, WelcomeMd) = UserText
    /\ readFile(fs, captureFile(platform, now)) = UserText
    /\ \A p \in TemplatePaths(platform) : readFile(fs, p) = VaultTemplateText
    /\ \A p \in EntryPaths(platform, now, {Morning}) : readFile(fs, p) = UserText


(***************************************************************************)
(* Properties of the weekly paths.                                         *)
(***************************************************************************)
\* the two dates of the run lie in different ISO weeks
DifferentIsoWeeks ==
    \/ RefWeekYear(exec.first) # RefWeekYear(exec.second)
    \/ RefWeekNumber(exec.first) # RefWeekNumber(exec.second)

\* C25: for two dates in different ISO weeks (ISO week-year or ISO week
\* number differ) getFilePath gives different files, for weekly-start and
\* for weekly-end.
C25_WeeksNeverShareFile ==
    exec.pc = "returned" /\ DifferentIsoWeeks
        => result.out[exec.first].value # result.out[exec.second].value

\* the files differ whenever the calendar year or the ISO week number of the
\* two dates differ, and are the same otherwise
C25_FileOfYearAndWeekNumber ==
    exec.pc = "returned" =>
        (result.out[exec.first].value = result.out[exec.second].value
            <=> /\ exec.first.year = exec.second.year
                /\ RefWeekNumber(exec.first) = RefWeekNumber(exec.second))


PlainFormats(t) ==
    \A m \in RefFormatMatches(t) :
        \A k \in 1..Len(RefFormatOf(t, m)) : RefFormatOf(t, m)[k] # "{"

C27_SameTypeTags ==
    /\ Ran("validateEntryType") /\ RefValidDate(result.args[2]) =>
          /\ result.out.valid <=> result.out.path.kind = "ok"
          /\ ~result.out.valid <=>
                /\ result.out.path.kind = "error"
                /\ result.out.path.message = "Unknown entry type"
    /\ Ran("newCommand") =>
          /\ result.out.status \in {"vault-not-found", "invalid-type", "invalid-date",
                                      "exists", "no-template", "created"}
          /\ result.out.path # <<>> =>
                \E ty \in SixTypes, d \in {now, At(2024, 12, 31, 0, 0)} :
                    result.out.path = LayoutPath(pathSep(platform), ty, d)

\* a tag in another case with a valid date: refused by both
C27_Witness ==
    /\ Ran("validateEntryType")
    /\ result.args = <<CapitalMorning, At(2024, 12, 30, 0, 0)>>
    /\ ~result.out.valid
    /\ result.out.path.kind = "error"

\* the keys of the six templates
RefTemplateKeys ==
    {<<"d","a","i","l","y","-","m","o","r","n","i","n","g">>,
     <<"d","a","i","l","y","-","e","v","e","n","i","n","g">>,
     <<"w","e","e","k","l","y","-","s","t","a","r","t">>,
     <<"w","e","e","k","l","y","-","e","n","d">>,
     <<"m","o","n","t","h","l","y","-","s","t","a","r","t">>,
     <<"m","o","n","t","h","l","y","-","e","n","d">>}

\* the type a run of newCommand works with: the argument, or the default
EntryTypeOfRun ==
    IF result.args[1] = <<>> THEN (IF now.hour < 12 THEN Morning ELSE Evening)
    ELSE result.args[1]

\* C30: in every run of newCommand the template key is looked up only for
\* one of the six types, and is one of daily-morning, daily-evening,
\* weekly-start, weekly-end, monthly-start, monthly-end; a run with any
\* other type stops before the lookup.
C30_TemplateKeyOfSixTypes ==
    Ran("newCommand") =>
        /\ result.out.key # <<>> =>
              /\ EntryTypeOfRun \in SixTypes
              /\ result.out.key \in RefTemplateKeys
        /\ EntryTypeOfRun \notin SixTypes =>
              result.out.key = <<>> /\ result.out.status \in {"vault-not-found", "invalid-type"}

\* the template of a monthly-end entry has been looked up
C30_Witness ==
    /\ Ran("newCommand")
    /\ result.args[1] = MonthlyEnd
    /\ result.out.key = <<"m","o","n","t","h","l","y","-","e","n","d">>


====
